---------------------------- MODULE Spec2Model ----------------------------
(***************************************************************************)
(* Model of the demusc notebooks.                                          *)
(*                                                                         *)
(*   Spec       train_model of train_model_optimized (gradient             *)
(*              accumulation, optional mixed precision, validation pass,   *)
(*              best-model checkpoint).                                    *)
(*   PlainSpec  the plain training loops of train_model.ipynb and of the   *)
(*              unnamed notebook (cell c204414c).                          *)
(*   PrepSpec   process_dataset of the preprocessing notebook.             *)
(*   SegSpec    extract_segments, applied to bounded inputs.               *)
(*   FwdSpec    the tensor shapes of SpectrogramSeparator.forward.         *)
(*   FlowSpec   forward from the encoder memory on, with its elements.     *)
(*   DatasetSpec, StartupSpec  the datasets and the start of train_model.  *)
(*   LoaderSpec train_model with the worker processes of its loaders.      *)
(*   LossSpec   SI_SDR_Loss.forward in exact arithmetic.                   *)
(*                                                                         *)
(* Numbers are fixed point: a loss is an integer number of loss units and  *)
(* a mean is the integer quotient of the sum by the count.  The numerics   *)
(* of the network (the value of a loss, whether scaled gradients overflow) *)
(* are inputs, drawn from small sets.  Audio samples are exact rationals   *)
(* [n, d]; d = 0 encodes the IEEE results of a division by zero.           *)
(***************************************************************************)
EXTENDS Integers, Sequences, FiniteSets, TLC

\* ------------------------------------------------------------------ bounds
MaxEpochs == 2
MaxBatches == 3
MaxAccum == 3
MaxTestBatches == 2
MaxLoss == 3
\* The loss scaler backs its scale off (and skips the step) at most this often.
MaxSkips == 1
\* Samples per channel of a track read by process_dataset.
MaxSamples == 4
\* The scaled-down sample rates process_dataset is configured with: 2..MaxSampleRate.
MaxSampleRate == 3
\* Length of the waveforms and sample rates extract_segments is applied to.
MaxLen == 4
MaxRate == 3

\* SpectrogramSeparator: the largest n_mels, seq_len, d_model and batch size of
\* the small models.
MaxMels == 2
MaxSeqLen == 3
MaxDModel == 2
MaxBatch == 2

\* Entries of an .npy file.
MaxItems == 3

\* SI_SDR_Loss: the largest absolute value of the predictions and targets.
MaxAmp == 1

\* Items of the training set the DataLoader workers serve.
MaxLoaderItems == 5

\* ------------------------------------------------------- program constants
\* float('inf'), the initial best_loss: larger than every loss of the model.
PosInf == 1000000

\* The fixed checkpoint path, os.path.join(results_dir, "models/model.pth").
CheckpointPath == "models/model.pth"

\* The validation losses printed by the recorded run of train_model
\* ("Test Loss: 12.5989", ...), in 1/10000 loss units.
RecordedLosses ==
    <<125989, 111985, 108709, 108625, 108344, 134472, 101391, 100299>>

\* The same run rounded to one decimal, in 1/10 loss units: epochs 3 and 4 tie.
RoundedLosses == <<126, 112, 109, 109, 108, 134, 101, 100>>

\* A validation feed fixes the loss every validation batch of epoch e returns;
\* the empty feed leaves the losses free.
ValFeeds == {<< >>, RecordedLosses, RoundedLosses}

\* The values the training criterion returns for a batch.
TrainLossValues == {1, 2}
LossValues == 1..MaxLoss

VARIABLES
    loop,                          \* which program runs
    num_epochs,                    \* train_model arguments
    gradient_accumulation_steps,
    use_amp,
    n_train,                       \* len(train_loader)
    n_test,                        \* len(test_loader)
    val_feed,                      \* input: the validation losses to come
    pc,
    epoch,
    train_iter,                    \* batches the train iterator has yielded
    batch_idx,
    loss,                          \* [value, div]: criterion value / div
    epoch_loss,
    avg_loss,
    grads,                         \* batches accumulated in .grad since the last reset
    params,                        \* number of updates applied to the parameters
    opt_state,                     \* number of updates the optimizer has recorded
    scaler_backoffs,               \* times the GradScaler halved its scale
    test_iter,
    test_loss,
    avg_test_loss,
    best_loss,
    fs,                            \* the files written: path -> content
    \* history of the run, read by the properties only
    step_calls,                    \* batch k -> step calls made after batch k, this epoch
    applied,                       \* batch k -> updates its gradient entered, this epoch
    discarded,                     \* batches whose gradient a reset dropped unstepped
    skipped,                       \* batches whose step the loss scaler skipped
    empty_steps,                   \* step calls made with no accumulated batch
    validated_epoch,               \* last epoch whose validation pass completed
    val_seen,                      \* mean validation losses of the epochs decided
    n_decisions,                   \* checkpoint decisions taken
    n_saves,                       \* torch.save calls made
    \* process_dataset
    SAMPLE_RATE,                   \* configuration cell (scaled down)
    track_idx,
    track,                         \* the track being processed
    mix_segments,
    sources_audio,                 \* source name -> its segments
    src_idx,                       \* position in ['vocals', 'drums', 'bass', 'other']
    seg_i,                         \* i of "for i in range(len(mix_segments))"
    segment_sources,
    all_mix_specs,
    all_source_specs,
    X,
    y,
    error,                         \* the exception that ended the run, or "none"
    mono,                          \* the last stereo_to_mono call: its stem and result
    \* a function applied to bounded inputs
    call,
    ret,
    \* the datasets of the training notebooks
    disk,                          \* the .npy files present: path -> array
    train_dataset,
    test_dataset,
    processed,                     \* training batches processed
    raised,                        \* the exception that ended the run, or "none"
    \* the multi-worker DataLoader iterator of train_loader
    batch_size,
    sampler_iter,                  \* the batches of indices the batch sampler has yet to yield
    index_queues,                  \* worker -> its queue of (task, indices), None ends the worker
    workers,                       \* worker -> position in _worker_loop and the batch it holds
    worker_result_queue,           \* results of the workers, read by the pin-memory thread
    data_queue,                    \* pinned results, read by __next__
    task_info,                     \* results received ahead of their turn: task -> batch
    send_idx,                      \* tasks sent to the workers
    rcvd_idx,                      \* tasks returned to the loop
    worker_queue_idx,              \* the worker the next task goes to
    X_batch,                       \* the batch the loop body holds
    loader,                        \* the loader being iterated
    delivered                      \* history: the batches returned in this pass

cfgvars == <<loop, num_epochs, gradient_accumulation_steps, use_amp, n_train,
             n_test, val_feed>>
trainvars == <<train_iter, batch_idx, loss, epoch_loss, avg_loss>>
gradvars == <<grads, params, opt_state, scaler_backoffs, step_calls, applied, discarded,
              skipped, empty_steps>>
evalvars == <<test_iter, test_loss, avg_test_loss, validated_epoch>>
ckptvars == <<best_loss, fs, val_seen, n_decisions, n_saves>>
loopvars == <<cfgvars, epoch, trainvars, gradvars, evalvars, ckptvars>>
prepvars == <<SAMPLE_RATE, track_idx, track, mix_segments, sources_audio, src_idx,
              seg_i, segment_sources, all_mix_specs, all_source_specs, X, y, error, mono>>
fnvars == <<call, ret>>
datavars == <<disk, train_dataset, test_dataset, processed, raised>>
loadervars == <<batch_size, sampler_iter, index_queues, workers, worker_result_queue,
                data_queue, task_info, send_idx, rcvd_idx, worker_queue_idx, X_batch,
                loader, delivered>>
vars == <<loopvars, pc, prepvars, fnvars, datavars, loadervars>>

\* ----------------------------------------------------------------- helpers
Min(S) == CHOOSE m \in S : \A o \in S : m <= o

\* sum / count in fixed point.
Mean(total, count) == total \div count

ZeroCount == [k \in 1..MaxBatches + 1 |-> 0]

\* torch.save(data, path): the file at path is created or replaced.
TorchSave(files, path, data) ==
    [p \in DOMAIN files \cup {path} |-> IF p = path THEN data ELSE files[p]]

\* The state of the programs a specification does not run.
PrepIdle ==
    /\ SAMPLE_RATE = 0
    /\ track_idx = 0
    /\ track = << >>
    /\ mix_segments = << >>
    /\ sources_audio = << >>
    /\ src_idx = 0
    /\ seg_i = 0
    /\ segment_sources = << >>
    /\ all_mix_specs = << >>
    /\ all_source_specs = << >>
    /\ X = << >>
    /\ y = << >>
    /\ error = "none"
    /\ mono = << >>

FnIdle ==
    /\ call = << >>
    /\ ret = << >>

DataIdle ==
    /\ disk = << >>
    /\ train_dataset = << >>
    /\ test_dataset = << >>
    /\ processed = 0
    /\ raised = "none"

LoaderIdle ==
    /\ batch_size = 0
    /\ sampler_iter = << >>
    /\ index_queues = << >>
    /\ workers = << >>
    /\ worker_result_queue = << >>
    /\ data_queue = << >>
    /\ task_info = << >>
    /\ send_idx = 0
    /\ rcvd_idx = 0
    /\ worker_queue_idx = 0
    /\ X_batch = << >>
    /\ loader = "none"
    /\ delivered = << >>

LoopIdle ==
    /\ loop = "none"
    /\ val_feed = << >>
    /\ num_epochs = 0
    /\ gradient_accumulation_steps = 1
    /\ use_amp = FALSE
    /\ n_train = 0
    /\ n_test = 0
    /\ epoch = 0
    /\ train_iter = 0
    /\ batch_idx = -1
    /\ loss = [value |-> 0, div |-> 1]
    /\ epoch_loss = 0
    /\ avg_loss = 0
    /\ grads = {}
    /\ params = 0
    /\ opt_state = 0
    /\ scaler_backoffs = 0
    /\ test_iter = 0
    /\ test_loss = 0
    /\ avg_test_loss = 0
    /\ best_loss = PosInf
    /\ fs = << >>
    /\ step_calls = ZeroCount
    /\ applied = ZeroCount
    /\ discarded = {}
    /\ skipped = {}
    /\ empty_steps = 0
    /\ validated_epoch = -1
    /\ val_seen = {}
    /\ n_decisions = 0
    /\ n_saves = 0

\* ------------------------------------------------- train_model: conditions
\* Mutant: the step is scheduled on the 0-based index.
StepDueOnIndex(idx, g) == idx % g = 0

\* "if (batch_idx + 1) % gradient_accumulation_steps == 0"
StepDue(idx, g) == (idx + 1) % g = 0

\* Mutant: the flush is unconditional.
FlushAlways(idx, g) == TRUE

\* "if (batch_idx + 1) % gradient_accumulation_steps != 0", after the loop
FlushDue(idx, g) == (idx + 1) % g # 0

\* Mutant: a tie with the best loss counts as an improvement.
ImprovedOrEqual(candidate, best) == candidate <= best

\* Mutant: every epoch is saved.
ImprovedAlways(candidate, best) == TRUE

\* "if avg_test_loss < best_loss"
Improved(candidate, best) == candidate < best

\* Mutant: the checkpoint records the 1-based epoch number that is printed.
CheckpointDataOneBased(e, model_state, optimizer_state, best) ==
    [epoch |-> e + 1, model_state_dict |-> model_state,
     optimizer_state_dict |-> optimizer_state, loss |-> best]

\* The dictionary train_model hands to torch.save.
CheckpointData(e, model_state, optimizer_state, best) ==
    [epoch |-> e, model_state_dict |-> model_state,
     optimizer_state_dict |-> optimizer_state, loss |-> best]

\* optimizer.step() / scaler.step(optimizer); scaler.update(): the accumulated
\* gradient enters one parameter update.  GradScaler.step skips optimizer.step()
\* when the unscaled gradients hold inf or NaN (found_inf).
StepEffect(found_inf) ==
    /\ step_calls' = [step_calls EXCEPT ![batch_idx + 1] = @ + 1]
    /\ empty_steps' = IF grads = {} THEN empty_steps + 1 ELSE empty_steps
    /\ IF found_inf
       THEN /\ UNCHANGED <<params, opt_state, applied>>
            /\ scaler_backoffs' = scaler_backoffs + 1
            /\ skipped' = skipped \cup grads
       ELSE /\ params' = params + 1
            /\ opt_state' = opt_state + 1
            /\ applied' = [k \in DOMAIN applied |->
                             IF k \in grads THEN applied[k] + 1 ELSE applied[k]]
            /\ UNCHANGED <<skipped, scaler_backoffs>>

\* The outcomes of the scaler's inf check: only the mixed-precision path has one,
\* and every overflow halves the scale, which makes the next one less likely.
FoundInf ==
    IF use_amp /\ scaler_backoffs < MaxSkips THEN BOOLEAN ELSE {FALSE}

\* Mutant: the reset after a step keeps the accumulated gradient.
ZeroGradKeep(stepped) == UNCHANGED <<grads, discarded>>

\* optimizer.zero_grad(): the accumulated gradient is dropped; stepped holds the
\* batches whose gradient a step call has already received.
ZeroGrad(stepped) ==
    /\ grads' = {}
    /\ discarded' = discarded \cup (grads \ stepped)

\* ----------------------------------------------------- train_model: actions
InitTrain ==
    /\ loop = "train_model"
    /\ val_feed \in ValFeeds
    /\ num_epochs \in (IF val_feed = << >> THEN 1..MaxEpochs ELSE {Len(val_feed)})
    /\ gradient_accumulation_steps \in 1..MaxAccum
    /\ use_amp \in (IF val_feed = << >> THEN BOOLEAN ELSE {FALSE})
    /\ n_train \in 1..MaxBatches
    /\ n_test \in 1..MaxTestBatches
    /\ pc = "epoch_start"
    /\ epoch = 0
    /\ train_iter = 0
    /\ batch_idx = -1
    /\ loss = [value |-> 0, div |-> 1]
    /\ epoch_loss = 0
    /\ avg_loss = 0
    /\ grads = {}
    /\ params = 0
    /\ opt_state = 0
    /\ scaler_backoffs = 0
    /\ test_iter = 0
    /\ test_loss = 0
    /\ avg_test_loss = 0
    /\ best_loss = PosInf
    /\ fs = << >>
    /\ step_calls = ZeroCount
    /\ applied = ZeroCount
    /\ discarded = {}
    /\ skipped = {}
    /\ empty_steps = 0
    /\ validated_epoch = -1
    /\ val_seen = {}
    /\ n_decisions = 0
    /\ n_saves = 0
    /\ PrepIdle
    /\ FnIdle
    /\ DataIdle
    /\ LoaderIdle

\* model.train(); epoch_loss = 0.0; optimizer.zero_grad(); iter(train_loader)
EpochStart ==
    /\ loop = "train_model"
    /\ pc = "epoch_start"
    /\ epoch_loss' = 0
    /\ grads' = {}
    /\ discarded' = grads
    /\ skipped' = {}
    /\ step_calls' = ZeroCount
    /\ applied' = ZeroCount
    /\ train_iter' = 0
    /\ pc' = "fetch"
    /\ UNCHANGED <<prepvars, fnvars, datavars, loadervars, cfgvars, epoch, batch_idx, loss, avg_loss, params, opt_state,
                   scaler_backoffs, empty_steps, evalvars, ckptvars>>

\* The loader yields the next batch; it is moved to the device.
FetchBatch ==
    /\ loop = "train_model"
    /\ pc = "fetch"
    /\ train_iter < n_train
    /\ batch_idx' = train_iter
    /\ train_iter' = train_iter + 1
    /\ pc' = "forward"
    /\ UNCHANGED <<prepvars, fnvars, datavars, loadervars, cfgvars, epoch, loss, epoch_loss, avg_loss, gradvars,
                   evalvars, ckptvars>>

\* output = model(X_batch), under autocast when use_amp
Forward ==
    /\ loop = "train_model"
    /\ pc = "forward"
    /\ pc' = "loss"
    /\ UNCHANGED <<prepvars, fnvars, datavars, loadervars, cfgvars, epoch, trainvars, gradvars, evalvars, ckptvars>>

\* loss = criterion(output, y_batch) / gradient_accumulation_steps
LossCompute ==
    /\ loop = "train_model"
    /\ pc = "loss"
    /\ \E v \in TrainLossValues :
         loss' = [value |-> v, div |-> gradient_accumulation_steps]
    /\ pc' = "backward"
    /\ UNCHANGED <<prepvars, fnvars, datavars, loadervars, cfgvars, epoch, train_iter, batch_idx, epoch_loss, avg_loss,
                   gradvars, evalvars, ckptvars>>

\* loss.backward() / scaler.scale(loss).backward(): the batch's gradient is
\* added to the accumulated one.
Backward ==
    /\ loop = "train_model"
    /\ pc = "backward"
    /\ grads' = grads \cup {batch_idx + 1}
    /\ pc' = "step"
    /\ UNCHANGED <<prepvars, fnvars, datavars, loadervars, cfgvars, epoch, trainvars, params, opt_state, scaler_backoffs,
                   step_calls, applied, discarded, skipped, empty_steps,
                   evalvars, ckptvars>>

\* The in-loop update: every gradient_accumulation_steps batches, step and reset.
OptimizerStep ==
    /\ loop = "train_model"
    /\ pc = "step"
    /\ IF StepDue(batch_idx, gradient_accumulation_steps)
       THEN \E found_inf \in FoundInf :
              /\ StepEffect(found_inf)
              /\ ZeroGrad(grads)
       ELSE UNCHANGED gradvars
    /\ pc' = "account"
    /\ UNCHANGED <<prepvars, fnvars, datavars, loadervars, cfgvars, epoch, trainvars, evalvars, ckptvars>>

\* batch_loss = loss.item() * gradient_accumulation_steps; epoch_loss += batch_loss;
\* del X_batch, y_batch, output
Account ==
    /\ loop = "train_model"
    /\ pc = "account"
    /\ epoch_loss' = epoch_loss + (loss.value * gradient_accumulation_steps) \div loss.div
    /\ pc' = "fetch"
    /\ UNCHANGED <<prepvars, fnvars, datavars, loadervars, cfgvars, epoch, train_iter, batch_idx, loss, avg_loss,
                   gradvars, evalvars, ckptvars>>

\* The train loader is exhausted: flush what is left, then
\* avg_loss = epoch_loss / len(train_loader); model.eval(); test_loss = 0.0
Flush ==
    /\ loop = "train_model"
    /\ pc = "fetch"
    /\ train_iter = n_train
    /\ IF FlushDue(batch_idx, gradient_accumulation_steps)
       THEN \E found_inf \in FoundInf :
              /\ StepEffect(found_inf)
              /\ ZeroGrad(grads)
       ELSE UNCHANGED gradvars
    /\ avg_loss' = Mean(epoch_loss, n_train)
    /\ test_loss' = 0
    /\ test_iter' = 0
    /\ pc' = "eval"
    /\ UNCHANGED <<prepvars, fnvars, datavars, loadervars, cfgvars, epoch, train_iter, batch_idx, loss, epoch_loss,
                   avg_test_loss, validated_epoch, ckptvars>>

\* The losses a validation batch of this epoch can return.
ValLosses == IF val_feed = << >> THEN LossValues ELSE {val_feed[epoch + 1]}

\* One validation batch under torch.no_grad():
\* loss = criterion(output, y_test); test_loss += loss.item()
EvalBatch ==
    /\ loop = "train_model"
    /\ pc = "eval"
    /\ test_iter < n_test
    /\ \E v \in ValLosses :
         /\ loss' = [value |-> v, div |-> 1]
         /\ test_loss' = test_loss + v
    /\ test_iter' = test_iter + 1
    /\ UNCHANGED <<prepvars, fnvars, datavars, loadervars, cfgvars, pc, epoch, train_iter, batch_idx, epoch_loss, avg_loss,
                   gradvars, avg_test_loss, validated_epoch, ckptvars>>

\* avg_test_loss = test_loss / len(test_loader)
EvalDone ==
    /\ loop = "train_model"
    /\ pc = "eval"
    /\ test_iter = n_test
    /\ avg_test_loss' = Mean(test_loss, n_test)
    /\ validated_epoch' = epoch
    /\ pc' = "checkpoint"
    /\ UNCHANGED <<prepvars, fnvars, datavars, loadervars, cfgvars, epoch, trainvars, gradvars, test_iter, test_loss,
                   ckptvars>>

\* Mutant: the loop stops one epoch early.
NextEpochShort ==
    IF epoch + 2 < num_epochs
    THEN epoch' = epoch + 1 /\ pc' = "epoch_start"
    ELSE epoch' = epoch /\ pc' = "done"

\* "for epoch in range(num_epochs)": the next epoch, or the end of the run.
NextEpoch ==
    IF epoch + 1 < num_epochs
    THEN epoch' = epoch + 1 /\ pc' = "epoch_start"
    ELSE epoch' = epoch /\ pc' = "done"

\* "Sauvegarder le meilleur modele": the checkpoint decision.
Checkpoint ==
    /\ loop = "train_model"
    /\ pc = "checkpoint"
    /\ IF Improved(avg_test_loss, best_loss)
       THEN /\ best_loss' = avg_test_loss
            /\ fs' = TorchSave(fs, CheckpointPath,
                        CheckpointData(epoch, params, opt_state, best_loss'))
            /\ n_saves' = n_saves + 1
       ELSE UNCHANGED <<best_loss, fs, n_saves>>
    /\ val_seen' = val_seen \cup {avg_test_loss}
    /\ n_decisions' = n_decisions + 1
    /\ NextEpoch
    /\ UNCHANGED <<prepvars, fnvars, datavars, loadervars, cfgvars, trainvars, gradvars, evalvars>>

Next ==
    \/ EpochStart
    \/ FetchBatch
    \/ Forward
    \/ LossCompute
    \/ Backward
    \/ OptimizerStep
    \/ Account
    \/ Flush
    \/ EvalBatch
    \/ EvalDone
    \/ Checkpoint

Spec == InitTrain /\ [][Next]_vars

\* ------------------------------------------------ the plain training loops
\* Cell c204414c of train_model.ipynb and of the unnamed notebook: no gradient
\* accumulation, no validation pass; the mean training loss decides.
PlainLoops == {"train_model.ipynb", "part_000"}

\* The dictionary each plain loop hands to torch.save.
PlainCheckpointData(which, e, model_state, optimizer_state, best) ==
    IF which = "part_000"
    THEN [epoch |-> e, model_state_dict |-> model_state,
          optimizer_state_dict |-> optimizer_state, loss |-> best]
    ELSE [model_state_dict |-> model_state,
          optimizer_state_dict |-> optimizer_state]

InitPlain ==
    /\ loop \in PlainLoops
    /\ val_feed = << >>
    /\ num_epochs \in 1..MaxEpochs
    /\ gradient_accumulation_steps = 1
    /\ use_amp = FALSE
    /\ n_train \in 1..MaxBatches
    /\ n_test \in 1..MaxTestBatches
    /\ pc = "epoch_start"
    /\ epoch = 0
    /\ train_iter = 0
    /\ batch_idx = -1
    /\ loss = [value |-> 0, div |-> 1]
    /\ epoch_loss = 0
    /\ avg_loss = 0
    /\ grads = {}
    /\ params = 0
    /\ opt_state = 0
    /\ scaler_backoffs = 0
    /\ test_iter = 0
    /\ test_loss = 0
    /\ avg_test_loss = 0
    /\ best_loss = PosInf
    /\ fs = << >>
    /\ step_calls = ZeroCount
    /\ applied = ZeroCount
    /\ discarded = {}
    /\ skipped = {}
    /\ empty_steps = 0
    /\ validated_epoch = -1
    /\ val_seen = {}
    /\ n_decisions = 0
    /\ n_saves = 0
    /\ PrepIdle
    /\ FnIdle
    /\ DataIdle
    /\ LoaderIdle

\* model.train(); epoch_loss = 0.0; iter(train_loader)
PlainEpochStart ==
    /\ loop \in PlainLoops
    /\ pc = "epoch_start"
    /\ epoch_loss' = 0
    /\ train_iter' = 0
    /\ step_calls' = ZeroCount
    /\ applied' = ZeroCount
    /\ pc' = "fetch"
    /\ UNCHANGED <<prepvars, fnvars, datavars, loadervars, cfgvars, epoch, batch_idx, loss, avg_loss, grads, params,
                   opt_state, scaler_backoffs, discarded, skipped, empty_steps,
                   evalvars, ckptvars>>

\* The loader yields the next batch; optimizer.zero_grad()
PlainFetchBatch ==
    /\ loop \in PlainLoops
    /\ pc = "fetch"
    /\ train_iter < n_train
    /\ batch_idx' = train_iter
    /\ train_iter' = train_iter + 1
    /\ ZeroGrad({k \in grads : applied[k] > 0})
    /\ pc' = "forward"
    /\ UNCHANGED <<prepvars, fnvars, datavars, loadervars, cfgvars, epoch, loss, epoch_loss, avg_loss, params, opt_state,
                   scaler_backoffs, step_calls, applied, skipped, empty_steps,
                   evalvars, ckptvars>>

\* output = model.forward(X_batch); loss = criterion(output, y_batch)
PlainForward ==
    /\ loop \in PlainLoops
    /\ pc = "forward"
    /\ \E v \in LossValues : loss' = [value |-> v, div |-> 1]
    /\ pc' = "backward"
    /\ UNCHANGED <<prepvars, fnvars, datavars, loadervars, cfgvars, epoch, train_iter, batch_idx, epoch_loss, avg_loss,
                   gradvars, evalvars, ckptvars>>

\* loss.backward(); optimizer.step(); epoch_loss += loss.item()
PlainBackwardStep ==
    /\ loop \in PlainLoops
    /\ pc = "backward"
    /\ grads' = grads \cup {batch_idx + 1}
    /\ step_calls' = [step_calls EXCEPT ![batch_idx + 1] = @ + 1]
    /\ applied' = [applied EXCEPT ![batch_idx + 1] = @ + 1]
    /\ params' = params + 1
    /\ opt_state' = opt_state + 1
    /\ epoch_loss' = epoch_loss + loss.value
    /\ pc' = "fetch"
    /\ UNCHANGED <<prepvars, fnvars, datavars, loadervars, cfgvars, epoch, train_iter, batch_idx, loss, avg_loss,
                   scaler_backoffs, discarded, skipped, empty_steps, evalvars,
                   ckptvars>>

\* The loader is exhausted: avg_loss = epoch_loss / len(train_loader)
PlainEpochEnd ==
    /\ loop \in PlainLoops
    /\ pc = "fetch"
    /\ train_iter = n_train
    /\ avg_loss' = Mean(epoch_loss, n_train)
    /\ pc' = "checkpoint"
    /\ UNCHANGED <<prepvars, fnvars, datavars, loadervars, cfgvars, epoch, train_iter, batch_idx, loss, epoch_loss,
                   gradvars, evalvars, ckptvars>>

\* "Save best model": the value compared is the mean training loss.
PlainCheckpoint ==
    /\ loop \in PlainLoops
    /\ pc = "checkpoint"
    /\ IF Improved(avg_loss, best_loss)
       THEN /\ best_loss' = avg_loss
            /\ fs' = TorchSave(fs, CheckpointPath,
                        PlainCheckpointData(loop, epoch, params, opt_state,
                                            best_loss'))
            /\ n_saves' = n_saves + 1
       ELSE UNCHANGED <<best_loss, fs, n_saves>>
    /\ n_decisions' = n_decisions + 1
    /\ NextEpoch
    /\ UNCHANGED <<prepvars, fnvars, datavars, loadervars, cfgvars, trainvars, gradvars, evalvars, val_seen>>

PlainNext ==
    \/ PlainEpochStart
    \/ PlainFetchBatch
    \/ PlainForward
    \/ PlainBackwardStep
    \/ PlainEpochEnd
    \/ PlainCheckpoint

PlainSpec == InitPlain /\ [][PlainNext]_vars

\* ------------------------------------------------------ rational arithmetic
Abs(i) == IF i < 0 THEN 0 - i ELSE i

Sign(i) == IF i < 0 THEN 0 - 1 ELSE 1

RECURSIVE GCD(_, _)
GCD(a, b) == IF b = 0 THEN a ELSE GCD(b, a % b)

\* n/d in lowest terms, d > 0.
Rat(n, d) ==
    LET g == GCD(Abs(n), d)
    IN  [n |-> Sign(n) * (Abs(n) \div g), d |-> d \div g]

\* 0.0, the fill value of np.zeros.
Zero == [n |-> 0, d |-> 1]

\* 0/0 in IEEE arithmetic.
NaN == [n |-> 0, d |-> 0]

IsFinite(a) == a.d # 0

\* a + b in IEEE arithmetic: inf + x = inf, inf - inf = nan.
RAdd(a, b) ==
    IF IsFinite(a) /\ IsFinite(b)
    THEN LET g == GCD(a.d, b.d)
         IN  Rat(a.n * (b.d \div g) + b.n * (a.d \div g), (a.d \div g) * b.d)
    ELSE IF a = NaN \/ b = NaN THEN NaN
    ELSE IF IsFinite(b) THEN a
    ELSE IF IsFinite(a) THEN b
    ELSE IF a = b THEN a ELSE NaN

RNeg(a) == [n |-> 0 - a.n, d |-> a.d]

RSub(a, b) == RAdd(a, RNeg(b))

\* a * b in IEEE arithmetic: inf * 0 = nan.
RMul(a, b) ==
    IF IsFinite(a) /\ IsFinite(b)
    THEN LET g == GCD(Abs(a.n), b.d)
             h == GCD(Abs(b.n), a.d)
         IN  Rat((a.n \div g) * (b.n \div h), (a.d \div h) * (b.d \div g))
    ELSE IF a = NaN \/ b = NaN \/ a.n = 0 \/ b.n = 0 THEN NaN
    ELSE [n |-> Sign(a.n) * Sign(b.n), d |-> 0]

RAbs(a) == [n |-> Abs(a.n), d |-> a.d]

RLess(a, b) == a.n * b.d < b.n * a.d

\* a / b as numpy computes it: a finite quotient, or nan (0/0) or +-inf (x/0)
\* with a warning and no exception.
RDiv(a, b) ==
    IF a = NaN \/ b = NaN \/ (~IsFinite(a) /\ ~IsFinite(b)) THEN NaN
    ELSE IF ~IsFinite(a) THEN [n |-> a.n * (IF b.n < 0 THEN 0 - 1 ELSE 1), d |-> 0]
    ELSE IF ~IsFinite(b) THEN Zero
    ELSE IF b.n = 0 THEN [n |-> (IF a.n = 0 THEN 0 ELSE Sign(a.n)), d |-> 0]
    ELSE RMul(a, [n |-> b.d * Sign(b.n), d |-> Abs(b.n)])

RECURSIVE RSum(_)
RSum(xs) == IF xs = << >> THEN Zero ELSE RAdd(Head(xs), RSum(Tail(xs)))

\* np.mean of a row.
RMean(xs) == RDiv(RSum(xs), Rat(Len(xs), 1))

\* np.max of a non-empty array of finite values.
RMax(xs) ==
    LET i == CHOOSE i \in 1..Len(xs) : \A j \in 1..Len(xs) : ~RLess(xs[i], xs[j])
    IN  xs[i]

\* int(x) for x >= 0.
ToInt(a) == a.n \div a.d

HasNonFinite(xs) == \E i \in 1..Len(xs) : ~IsFinite(xs[i])

\* ------------------------------------------------ preprocessing: functions
\* An ndarray of one or two dimensions: data is the samples, or the rows.
Arr1(xs) == [ndim |-> 1, data |-> xs]

Arr2(rows) == [ndim |-> 2, data |-> rows]

\* audio.T
Transpose(a) ==
    IF a.ndim = 1 \/ a.data = << >> THEN a
    ELSE Arr2([c \in 1..Len(a.data[1]) |->
                 [r \in 1..Len(a.data) |-> a.data[r][c]]])

\* np.mean(audio, axis=1) if audio.ndim > 1 else audio
stereo_to_mono(audio) ==
    IF audio.ndim > 1
    THEN Arr1([r \in 1..Len(audio.data) |-> RMean(audio.data[r])])
    ELSE audio

\* audio / np.max(np.abs(audio))
normalize_audio(audio) ==
    LET peak == RMax([i \in 1..Len(audio.data) |-> RAbs(audio.data[i])])
    IN  Arr1([i \in 1..Len(audio.data) |-> RDiv(audio.data[i], peak)])

\* Mutant: the trailing partial segment is dropped (floor instead of ceiling).
extract_segments_floor(waveform, sample_rate, segment_duration) ==
    LET samples_per_segment == ToInt(RDiv(Rat(sample_rate * segment_duration.n, 1),
                                          Rat(segment_duration.d, 1)))
        total_samples == Len(waveform.data)
        n_segments == total_samples \div samples_per_segment
    IN  [i \in 1..n_segments |->
           [j \in 1..samples_per_segment |->
              waveform.data[(i - 1) * samples_per_segment + j]]]

\* extract_segments: the rows of the (n_segments, samples_per_segment) array.
extract_segments(waveform, sample_rate, segment_duration) ==
    LET samples_per_segment == ToInt(RDiv(Rat(sample_rate * segment_duration.n, 1),
                                          Rat(segment_duration.d, 1)))
        total_samples == Len(waveform.data)
        n_segments == (total_samples + samples_per_segment - 1) \div samples_per_segment
    IN  [i \in 1..n_segments |->
           LET start_idx == (i - 1) * samples_per_segment
               end_idx == IF start_idx + samples_per_segment < total_samples
                          THEN start_idx + samples_per_segment
                          ELSE total_samples
               segment_length == end_idx - start_idx
           IN  [j \in 1..samples_per_segment |->
                  IF j <= segment_length THEN waveform.data[start_idx + j] ELSE Zero]]

\* N_FFT = 2048 and HOP_LENGTH = 512 for 44100 samples a second, scaled down
\* with the sample rates of the model.
N_FFT == 4
HOP_LENGTH == 2

\* compute_spectrogram: the magnitude STFT, kept as a function of its input,
\* with its shape: torch.stft with its default center=True pads n_fft // 2
\* samples on both sides and returns n_fft // 2 + 1 rows of
\* 1 + len(audio) // hop_length frames.
compute_spectrogram(audio) ==
    [stft_of |-> audio,
     nonfinite |-> HasNonFinite(audio),
     shape |-> <<N_FFT \div 2 + 1, 1 + Len(audio) \div HOP_LENGTH>>]

\* ------------------------------------------- extract_segments on its own
\* The sample values of the waveforms tried.
SampleValues == {Rat(0 - 1, 1), Zero, Rat(1, 1)}

Waveforms == UNION {[1..len -> SampleValues] : len \in 0..MaxLen}

\* segment_duration: the configured 0.9 s and the default 3 s.
Durations == {Rat(9, 10), Rat(3, 1)}

InitSeg ==
    /\ pc = "call"
    /\ \E w \in Waveforms, sr \in 1..MaxRate, dur \in Durations :
         /\ ToInt(RDiv(Rat(sr * dur.n, 1), Rat(dur.d, 1))) >= 1
         /\ call = [waveform |-> Arr1(w), sample_rate |-> sr, segment_duration |-> dur]
    /\ ret = << >>
    /\ LoopIdle
    /\ PrepIdle
    /\ DataIdle
    /\ LoaderIdle

CallExtractSegments ==
    /\ pc = "call"
    /\ ret' = extract_segments(call.waveform, call.sample_rate, call.segment_duration)
    /\ pc' = "returned"
    /\ UNCHANGED <<loopvars, prepvars, datavars, loadervars, call>>

SegNext == CallExtractSegments

SegSpec == InitSeg /\ [][SegNext]_vars

\* ------------------------------------------------------- process_dataset
\* SEGMENT_DURATION = 0.9
SEGMENT_DURATION == Rat(9, 10)

\* SEGMENT_SAMPLES = int(SAMPLE_RATE * SEGMENT_DURATION)
SEGMENT_SAMPLES ==
    ToInt(RDiv(Rat(SAMPLE_RATE * SEGMENT_DURATION.n, 1), Rat(SEGMENT_DURATION.d, 1)))

\* segment_duration=3, the default process_dataset leaves in place when it calls
\* extract_segments(audio, SEGMENT_SAMPLES).
DefaultSegmentDuration == Rat(3, 1)

\* load_musdb: musdb.DB(...)[:2]
TrackLimit == 2

\* ['vocals', 'drums', 'bass', 'other']
SourceNames == <<"vocals", "drums", "bass", "other">>

\* The stems read from disk, (samples, 2 channels) each: silence, or a ramp.
Stem(silent, n) ==
    Arr2([k \in 1..n |-> IF silent THEN <<Zero, Zero>> ELSE <<Rat(k, 1), Rat(k, 1)>>])

\* The sources of a track that are silent: none, the vocals only, or all of
\* them, and then the mixture is silent too.
SilentSets == {{}, {"vocals"}, {SourceNames[j] : j \in 1..4}}

TrackInputs ==
    {[audio |-> Stem(Cardinality(silent) = 4, n),
      targets |-> [name \in {SourceNames[j] : j \in 1..4} |-> Stem(name \in silent, n)]] :
        silent \in SilentSets, n \in 1..MaxSamples}

InitPrep ==
    /\ pc = "load"
    /\ SAMPLE_RATE \in 2..MaxSampleRate
    /\ track_idx = 0
    /\ track = << >>
    /\ mix_segments = << >>
    /\ sources_audio = << >>
    /\ src_idx = 0
    /\ seg_i = 0
    /\ segment_sources = << >>
    /\ all_mix_specs = << >>
    /\ all_source_specs = << >>
    /\ X = << >>
    /\ y = << >>
    /\ error = "none"
    /\ mono = << >>
    /\ LoopIdle
    /\ FnIdle
    /\ DataIdle
    /\ LoaderIdle

\* "for track_idx, track in enumerate(pbar_tracks)": the next track is read.
LoadTrack ==
    /\ pc = "load"
    /\ track_idx < TrackLimit
    /\ \E t \in TrackInputs : track' = t
    /\ pc' = "mixture"
    /\ UNCHANGED <<loopvars, fnvars, datavars, loadervars, mono, SAMPLE_RATE, track_idx, mix_segments,
                   sources_audio, src_idx, seg_i, segment_sources, all_mix_specs,
                   all_source_specs, X, y, error>>

\* track.audio = track.audio.T; mix_audio = stereo_to_mono(track.audio.T);
\* normalize_audio; extract_segments(mix_audio, SEGMENT_SAMPLES)
ProcessMixture ==
    /\ pc = "mixture"
    /\ track' = [track EXCEPT !.audio = Transpose(@)]
    /\ LET mono_audio == stereo_to_mono(Transpose(track'.audio))
           mix_audio == normalize_audio(mono_audio)
       IN  /\ mono' = [stem |-> "mixture", result |-> mono_audio]
           /\ mix_segments' =
                extract_segments(mix_audio, SEGMENT_SAMPLES, DefaultSegmentDuration)
    /\ sources_audio' = << >>
    /\ src_idx' = 1
    /\ pc' = "sources"
    /\ UNCHANGED <<loopvars, fnvars, datavars, loadervars, SAMPLE_RATE, track_idx, seg_i, segment_sources,
                   all_mix_specs, all_source_specs, X, y, error>>

\* source_audio = stereo_to_mono(track.targets[source].audio.T); normalize_audio;
\* sources_audio[source] = extract_segments(source_audio, SEGMENT_SAMPLES)
ProcessSource ==
    /\ pc = "sources"
    /\ src_idx <= Len(SourceNames)
    /\ LET source == SourceNames[src_idx]
           mono_audio == stereo_to_mono(Transpose(track.targets[source]))
           source_audio == normalize_audio(mono_audio)
           segs == extract_segments(source_audio, SEGMENT_SAMPLES,
                                    DefaultSegmentDuration)
       IN  /\ mono' = [stem |-> source, result |-> mono_audio]
           /\ sources_audio' =
                [name \in DOMAIN sources_audio \cup {source} |->
                   IF name = source THEN segs ELSE sources_audio[name]]
    /\ src_idx' = src_idx + 1
    /\ UNCHANGED <<loopvars, fnvars, datavars, loadervars, pc, SAMPLE_RATE, track_idx, track, mix_segments,
                   seg_i, segment_sources, all_mix_specs, all_source_specs, X, y,
                   error>>

\* The sources are done: "for i in range(len(mix_segments))" starts.
StartSpectrograms ==
    /\ pc = "sources"
    /\ src_idx > Len(SourceNames)
    /\ seg_i' = 0
    /\ pc' = "spec_mix"
    /\ UNCHANGED <<loopvars, fnvars, datavars, loadervars, mono, SAMPLE_RATE, track_idx, track, mix_segments,
                   sources_audio, src_idx, segment_sources, all_mix_specs,
                   all_source_specs, X, y, error>>

\* mix_spec = compute_spectrogram(mix_segments[i]); all_mix_specs.append(mix_spec);
\* segment_sources = []
SpectrogramMixture ==
    /\ pc = "spec_mix"
    /\ seg_i < Len(mix_segments)
    /\ all_mix_specs' = Append(all_mix_specs, compute_spectrogram(mix_segments[seg_i + 1]))
    /\ segment_sources' = << >>
    /\ src_idx' = 1
    /\ pc' = "spec_src"
    /\ UNCHANGED <<loopvars, fnvars, datavars, loadervars, mono, SAMPLE_RATE, track_idx, track, mix_segments,
                   sources_audio, seg_i, all_source_specs, X, y, error>>

\* sources_audio[source][i] is within the source's segments.
IndexInRange(segs, i) == i < Len(segs)

\* source_spec = compute_spectrogram(sources_audio[source][i]);
\* segment_sources.append(source_spec)
SpectrogramSource ==
    /\ pc = "spec_src"
    /\ src_idx <= Len(SourceNames)
    /\ IndexInRange(sources_audio[SourceNames[src_idx]], seg_i)
    /\ segment_sources' =
         Append(segment_sources,
                compute_spectrogram(sources_audio[SourceNames[src_idx]][seg_i + 1]))
    /\ src_idx' = src_idx + 1
    /\ UNCHANGED <<loopvars, fnvars, datavars, loadervars, mono, pc, SAMPLE_RATE, track_idx, track, mix_segments,
                   sources_audio, seg_i, all_mix_specs, all_source_specs, X, y,
                   error>>

\* sources_audio[source][i] with i past the source's last segment: numpy raises
\* IndexError and process_dataset ends.
SourceIndexError ==
    /\ pc = "spec_src"
    /\ src_idx <= Len(SourceNames)
    /\ ~IndexInRange(sources_audio[SourceNames[src_idx]], seg_i)
    /\ error' = "IndexError"
    /\ pc' = "failed"
    /\ UNCHANGED <<loopvars, fnvars, datavars, loadervars, mono, SAMPLE_RATE, track_idx, track, mix_segments,
                   sources_audio, src_idx, seg_i, segment_sources, all_mix_specs,
                   all_source_specs, X, y>>

\* all_source_specs.append(np.stack(segment_sources)); the next i
AppendSources ==
    /\ pc = "spec_src"
    /\ src_idx > Len(SourceNames)
    /\ all_source_specs' = Append(all_source_specs, segment_sources)
    /\ seg_i' = seg_i + 1
    /\ pc' = "spec_mix"
    /\ UNCHANGED <<loopvars, fnvars, datavars, loadervars, mono, SAMPLE_RATE, track_idx, track, mix_segments,
                   sources_audio, src_idx, segment_sources, all_mix_specs, X, y,
                   error>>

\* The segments of the track are done: the next track.
TrackDone ==
    /\ pc = "spec_mix"
    /\ seg_i = Len(mix_segments)
    /\ track_idx' = track_idx + 1
    /\ pc' = "load"
    /\ UNCHANGED <<loopvars, fnvars, datavars, loadervars, mono, SAMPLE_RATE, track, mix_segments, sources_audio,
                   src_idx, seg_i, segment_sources, all_mix_specs, all_source_specs,
                   X, y, error>>

\* X = torch.FloatTensor(np.stack(all_mix_specs)).unsqueeze(1);
\* y = torch.FloatTensor(np.stack(all_source_specs)); return X, y
ReturnDataset ==
    /\ pc = "load"
    /\ track_idx = TrackLimit
    /\ X' = [k \in 1..Len(all_mix_specs) |-> <<all_mix_specs[k]>>]
    /\ y' = all_source_specs
    /\ pc' = "returned"
    /\ UNCHANGED <<loopvars, fnvars, datavars, loadervars, mono, SAMPLE_RATE, track_idx, track, mix_segments,
                   sources_audio, src_idx, seg_i, segment_sources, all_mix_specs,
                   all_source_specs, error>>

\* X.shape and y.shape of the tensors process_dataset returns: the stack of
\* the spectrograms, with the channel dimension unsqueeze(1) adds to X.
ShapeOfX == IF X = << >> THEN <<0>> ELSE <<Len(X), Len(X[1])>> \o X[1][1].shape

ShapeOfY == IF y = << >> THEN <<0>> ELSE <<Len(y), Len(y[1])>> \o y[1][1].shape

\* The files train_model loads.
InputPaths ==
    {"processed/X_train.npy", "processed/y_train.npy",
     "processed/X_test.npy", "processed/y_test.npy"}

\* The driver cell: X_train, y_train = process_dataset('train'); the rest of the
\* cell, the test subset and the torch.save, is inside a string literal and
\* never runs, so no file is written.
DriverCell ==
    /\ pc = "returned"
    /\ pc' = "driver_done"
    /\ UNCHANGED <<loopvars, fnvars, datavars, loadervars, prepvars>>

PrepNext ==
    \/ DriverCell
    \/ LoadTrack
    \/ ProcessMixture
    \/ ProcessSource
    \/ StartSpectrograms
    \/ SpectrogramMixture
    \/ SpectrogramSource
    \/ SourceIndexError
    \/ AppendSources
    \/ TrackDone
    \/ ReturnDataset

PrepSpec == InitPrep /\ [][PrepNext]_vars

\* ------------------------------------------- SpectrogramSeparator.forward
\* A tensor is known by its shape; a call that raises leaves no tensor.
Tensor(shape) == [ok |-> TRUE, shape |-> shape]

Raised == [ok |-> FALSE, shape |-> << >>]

RECURSIVE Prod(_)
Prod(shape) == IF shape = << >> THEN 1 ELSE Head(shape) * Prod(Tail(shape))

\* Tensor.unsqueeze(1)
Unsqueeze1(t) ==
    IF ~t.ok THEN Raised
    ELSE Tensor(<<t.shape[1]>> \o <<1>> \o SubSeq(t.shape, 2, Len(t.shape)))

\* Tensor.permute(*order), order counted from 1
Permute(t, order) ==
    IF ~t.ok \/ Len(order) # Len(t.shape) THEN Raised
    ELSE Tensor([k \in 1..Len(order) |-> t.shape[order[k]]])

\* Tensor.reshape(*target); an entry of -1 is inferred from the element count
\* and the call raises when the count does not divide.
Reshape(t, target) ==
    IF ~t.ok THEN Raised
    ELSE LET known == Prod([k \in 1..Len(target) |->
                              IF target[k] = -1 THEN 1 ELSE target[k]])
             total == Prod(t.shape)
         IN  IF \E k \in 1..Len(target) : target[k] = -1
             THEN IF known = 0 \/ total % known # 0 THEN Raised
                  ELSE Tensor([k \in 1..Len(target) |->
                                 IF target[k] = -1 THEN total \div known
                                                   ELSE target[k]])
             ELSE IF total # known THEN Raised ELSE Tensor(target)

\* nn.Conv2d(1, 32, ...) ... nn.Conv2d(64, 128, kernel_size=3, padding=1)
ConvOutChannels == 128

\* self.conv_encoder(x): (B, 1, F, T) -> (B, 128, F, T)
conv_encoder(t) ==
    IF ~t.ok \/ Len(t.shape) # 4 \/ t.shape[2] # 1 THEN Raised
    ELSE Tensor(<<t.shape[1], ConvOutChannels, t.shape[3], t.shape[4]>>)

\* nn.Linear(in_features, out_features) on the last dimension
Linear(t, in_features, out_features) ==
    IF ~t.ok \/ t.shape[Len(t.shape)] # in_features THEN Raised
    ELSE Tensor(SubSeq(t.shape, 1, Len(t.shape) - 1) \o <<out_features>>)

\* x + self.pos_encoding[:T]: the slice has min(T, seq_len) rows and the sum
\* broadcasts it over the batch.
AddPosEncoding(t, seq_len, d_model) ==
    IF ~t.ok THEN Raised
    ELSE LET T == t.shape[2]
             rows == IF T < seq_len THEN T ELSE seq_len
         IN  IF t.shape[3] # d_model THEN Raised
             ELSE IF rows = T \/ rows = 1 \/ T = 1
                  THEN Tensor(<<t.shape[1], IF rows > T THEN rows ELSE T, d_model>>)
                  ELSE Raised

\* self.transformer_encoder(x), batch_first: the last dimension must be d_model
transformer_encoder(t, d_model) ==
    IF ~t.ok \/ Len(t.shape) # 3 \/ t.shape[3] # d_model THEN Raised ELSE t

\* Parameter.expand(B, -1, -1, -1) of an (S, L, d) tensor: (B, S, L, d)
ExpandBatch(t, B) ==
    IF ~t.ok THEN Raised ELSE Tensor(<<B>> \o t.shape)

\* memory.unsqueeze(1).expand(-1, S, -1, -1): (B, T, d) -> (B, S, T, d)
ExpandSources(t, S) ==
    IF ~t.ok THEN Raised
    ELSE Tensor(<<t.shape[1], S>> \o SubSeq(t.shape, 2, Len(t.shape)))

\* self.transformer_decoder(queries, memory), batch_first: both must have
\* d_model features and the same batch size.
transformer_decoder(tgt, memory, d_model) ==
    IF ~tgt.ok \/ ~memory.ok THEN Raised
    ELSE IF tgt.shape[3] # d_model \/ memory.shape[3] # d_model
            \/ tgt.shape[1] # memory.shape[1]
         THEN Raised
         ELSE tgt

\* SpectrogramSeparator.__init__ defaults of the optimized notebook
OptimizedDefaults ==
    [n_mels |-> 128, seq_len |-> 800, n_sources |-> 4, d_model |-> 256, nhead |-> 8]

\* SpectrogramSeparator.__init__ defaults of the unnamed notebook
UnnamedDefaults ==
    [n_mels |-> 128, seq_len |-> 20000, n_sources |-> 4, d_model |-> 256, nhead |-> 8]

\* SpectrogramSeparator.forward(self, x)
forward(self, x) ==
    LET B == x.shape[1]
        x1 == conv_encoder(Unsqueeze1(x))
        x2 == Permute(x1, <<1, 4, 2, 3>>)
        T == x2.shape[2]
        C == x2.shape[3]
        M == x2.shape[4]
        x3 == Linear(Reshape(x2, <<B, T, C * M>>), ConvOutChannels * self.n_mels,
                     self.d_model)
        x4 == AddPosEncoding(x3, self.seq_len, self.d_model)
        memory == transformer_encoder(x4, self.d_model)
        source_queries == Tensor(<<self.n_sources, self.seq_len, self.d_model>>)
        S == self.n_sources
        queries == Reshape(ExpandBatch(source_queries, B), <<B * S, T, -1>>)
        memory2 == Reshape(ExpandSources(memory, S), <<B * S, T, -1>>)
        output == Linear(transformer_decoder(queries, memory2, self.d_model),
                         self.d_model, self.n_mels)
    IN  IF Len(x.shape) # 3 THEN Raised
        ELSE Permute(Reshape(output, <<B, S, T, self.n_mels>>), <<1, 2, 4, 3>>)

\* The models tried: the two notebooks' defaults and small ones.
Models ==
    {OptimizedDefaults, UnnamedDefaults} \cup
    {[n_mels |-> m, seq_len |-> l, n_sources |-> 4, d_model |-> d, nhead |-> 1] :
        m \in 1..MaxMels, l \in 1..MaxSeqLen, d \in 1..MaxDModel}

\* The time lengths tried with a model: up to its seq_len.
TimeLengths(self) ==
    IF self.seq_len > MaxSeqLen + 1 THEN {400, 800} ELSE 1..self.seq_len

InitFwd ==
    /\ pc = "call"
    /\ \E self \in Models, B \in 1..MaxBatch :
         \E T \in TimeLengths(self) :
            call = [self |-> self, x |-> Tensor(<<B, self.n_mels, T>>)]
    /\ ret = << >>
    /\ LoopIdle
    /\ PrepIdle
    /\ DataIdle
    /\ LoaderIdle

\* outputs = model(X_batch)
CallForward ==
    /\ pc = "call"
    /\ ret' = forward(call.self, call.x)
    /\ pc' = "returned"
    /\ UNCHANGED <<loopvars, prepvars, datavars, loadervars, call>>

FwdNext == CallForward

FwdSpec == InitFwd /\ [][FwdNext]_vars

\* ------------------------------------------------------------ the datasets
\* An .npy file of n entries; entry k of the mixtures goes with entry k of the
\* sources.
NpyArray(kind, n) == [k \in 1..n |-> [of |-> kind, item |-> k]]

\* np.load(path): the array, or FileNotFoundError
np_load(path) ==
    IF path \in DOMAIN disk THEN [ok |-> TRUE, data |-> disk[path]]
    ELSE [ok |-> FALSE, data |-> << >>]

\* SpectrogramDataset.__init__(self, X, y): self.X = torch.tensor(X),
\* self.y = torch.tensor(y); nothing compares the two.
SpectrogramDataset(X_arr, y_arr) ==
    [ok |-> TRUE,
     self |-> [cls |-> "SpectrogramDataset", X_path |-> "", y_path |-> "",
               preloaded |-> TRUE, X_data |-> X_arr, y_data |-> y_arr]]

\* OptimizedSpectrogramDataset._preload_data: both files are loaded, or the
\* np.load of a missing one raises.
_preload_data(self) ==
    LET X_data == np_load(self.X_path)
        y_data == np_load(self.y_path)
    IN  IF X_data.ok /\ y_data.ok
        THEN [ok |-> TRUE,
              self |-> [self EXCEPT !.preloaded = TRUE, !.X_data = X_data.data,
                                    !.y_data = y_data.data]]
        ELSE [ok |-> FALSE, self |-> self]

\* OptimizedSpectrogramDataset.__init__: X_data = y_data = None, and
\* _preload_data() if preload.
OptimizedSpectrogramDataset(X_path, y_path, preload) ==
    LET self == [cls |-> "OptimizedSpectrogramDataset", X_path |-> X_path,
                 y_path |-> y_path, preloaded |-> FALSE, X_data |-> << >>,
                 y_data |-> << >>]
    IN  IF preload THEN _preload_data(self) ELSE [ok |-> TRUE, self |-> self]

\* __len__ of both classes: len(self.X_data), or of the X file opened for it.
__len__(self) ==
    IF self.preloaded THEN [ok |-> TRUE, value |-> Len(self.X_data)]
    ELSE LET X_file == np_load(self.X_path)
         IN  [ok |-> X_file.ok, value |-> Len(X_file.data)]

\* __getitem__ of both classes, idx counted from 0: (X[idx], y[idx]) of the
\* tensors or of the two files opened for it; an idx past the end of either
\* raises IndexError, a missing file FileNotFoundError.
__getitem__(self, idx) ==
    LET X_file == IF self.preloaded THEN [ok |-> TRUE, data |-> self.X_data]
                                    ELSE np_load(self.X_path)
        y_file == IF self.preloaded THEN [ok |-> TRUE, data |-> self.y_data]
                                    ELSE np_load(self.y_path)
    IN  IF X_file.ok /\ y_file.ok /\ idx < Len(X_file.data) /\ idx < Len(y_file.data)
        THEN [ok |-> TRUE, X_item |-> X_file.data[idx + 1],
              y_item |-> y_file.data[idx + 1]]
        ELSE [ok |-> FALSE, X_item |-> << >>, y_item |-> << >>]

\* The dataset objects tried: SpectrogramDataset, and OptimizedSpectrogramDataset
\* preloaded or not.
DatasetKinds ==
    {[cls |-> "SpectrogramDataset", preload |-> TRUE],
     [cls |-> "OptimizedSpectrogramDataset", preload |-> TRUE],
     [cls |-> "OptimizedSpectrogramDataset", preload |-> FALSE]}

\* A mixture file and a source file of any two sizes, and the dataset to build.
InitDataset ==
    /\ pc = "construct"
    /\ \E nx \in 0..MaxItems, ny \in 0..MaxItems :
         disk = [p \in {"processed/X_train.npy", "processed/y_train.npy"} |->
                   IF p = "processed/X_train.npy" THEN NpyArray("mixture", nx)
                                                  ELSE NpyArray("sources", ny)]
    /\ \E kind \in DatasetKinds : call = kind
    /\ ret = << >>
    /\ train_dataset = << >>
    /\ test_dataset = << >>
    /\ processed = 0
    /\ raised = "none"
    /\ LoopIdle
    /\ PrepIdle
    /\ LoaderIdle

\* train_dataset = SpectrogramDataset(X_train, y_train), or
\* OptimizedSpectrogramDataset(X_train_path, y_train_path, preload=...)
ConstructDataset ==
    /\ pc = "construct"
    /\ LET made == IF call.cls = "SpectrogramDataset"
                   THEN SpectrogramDataset(np_load("processed/X_train.npy").data,
                                           np_load("processed/y_train.npy").data)
                   ELSE OptimizedSpectrogramDataset("processed/X_train.npy",
                                                    "processed/y_train.npy",
                                                    call.preload)
       IN  IF made.ok
           THEN train_dataset' = made.self /\ pc' = "ready" /\ raised' = raised
           ELSE train_dataset' = train_dataset /\ pc' = "failed"
                /\ raised' = "FileNotFoundError"
    /\ UNCHANGED <<loopvars, prepvars, loadervars, call, ret, disk, test_dataset, processed>>

\* len(train_dataset)
CallLen ==
    /\ pc = "ready"
    /\ ret' = [op |-> "len", idx |-> 0, result |-> __len__(train_dataset)]
    /\ UNCHANGED <<loopvars, prepvars, pc, call, datavars, loadervars>>

\* train_dataset[idx] for an idx in range(len(train_dataset))
CallGetItem ==
    /\ pc = "ready"
    /\ __len__(train_dataset).ok
    /\ \E idx \in 0..(__len__(train_dataset).value - 1) :
         ret' = [op |-> "getitem", idx |-> idx,
                 result |-> __getitem__(train_dataset, idx)]
    /\ UNCHANGED <<loopvars, prepvars, pc, call, datavars, loadervars>>

DatasetNext ==
    \/ ConstructDataset
    \/ CallLen
    \/ CallGetItem

DatasetSpec == InitDataset /\ [][DatasetNext]_vars

\* ------------------------------------------- train_model: datasets, loaders
\* Any of the four input files may be missing; those present hold the same
\* number of entries.
InitStartup ==
    /\ pc = "train_dataset"
    /\ \E present \in SUBSET InputPaths, n \in 1..MaxItems :
         disk = [p \in present |->
                   IF p \in {"processed/X_train.npy", "processed/X_test.npy"}
                   THEN NpyArray("mixture", n) ELSE NpyArray("sources", n)]
    /\ \E preload_data \in BOOLEAN : call = [preload_data |-> preload_data]
    /\ ret = << >>
    /\ train_dataset = << >>
    /\ test_dataset = << >>
    /\ processed = 0
    /\ raised = "none"
    /\ LoopIdle
    /\ PrepIdle
    /\ LoaderIdle

\* train_dataset = OptimizedSpectrogramDataset(X_train_path, y_train_path,
\*                                             preload=preload_data, ...)
BuildTrainDataset ==
    /\ pc = "train_dataset"
    /\ LET made == OptimizedSpectrogramDataset("processed/X_train.npy",
                                               "processed/y_train.npy",
                                               call.preload_data)
       IN  IF made.ok
           THEN train_dataset' = made.self /\ pc' = "test_dataset" /\ raised' = raised
           ELSE train_dataset' = train_dataset /\ pc' = "failed"
                /\ raised' = "FileNotFoundError"
    /\ UNCHANGED <<loopvars, prepvars, loadervars, fnvars, disk, test_dataset, processed>>

\* test_dataset = OptimizedSpectrogramDataset(X_test_path, y_test_path, ...)
BuildTestDataset ==
    /\ pc = "test_dataset"
    /\ LET made == OptimizedSpectrogramDataset("processed/X_test.npy",
                                               "processed/y_test.npy",
                                               call.preload_data)
       IN  IF made.ok
           THEN test_dataset' = made.self /\ pc' = "train_loader" /\ raised' = raised
           ELSE test_dataset' = test_dataset /\ pc' = "failed"
                /\ raised' = "FileNotFoundError"
    /\ UNCHANGED <<loopvars, prepvars, loadervars, fnvars, disk, train_dataset, processed>>

\* train_loader = DataLoader(train_dataset, shuffle=True, ...): the
\* RandomSampler built for shuffle=True takes len(train_dataset).
BuildTrainLoader ==
    /\ pc = "train_loader"
    /\ IF __len__(train_dataset).ok
       THEN pc' = "test_loader" /\ raised' = raised
       ELSE pc' = "failed" /\ raised' = "FileNotFoundError"
    /\ UNCHANGED <<loopvars, prepvars, loadervars, fnvars, disk, train_dataset, test_dataset,
                   processed>>

\* test_loader = DataLoader(test_dataset, shuffle=False, ...): the
\* SequentialSampler keeps the dataset and asks nothing of it; then the model,
\* the criterion and the optimizer are built and the first epoch starts.
BuildTestLoader ==
    /\ pc = "test_loader"
    /\ pc' = "training"
    /\ UNCHANGED <<loopvars, prepvars, fnvars, datavars, loadervars>>

\* for batch_idx, (X_batch, y_batch) in enumerate(pbar): the batch is fetched
\* with train_dataset[idx] and processed; after the last one the validation
\* pass is next.
TrainBatch ==
    /\ pc = "training"
    /\ IF __getitem__(train_dataset, processed).ok
       THEN /\ processed' = processed + 1
            /\ pc' = IF processed + 1 < __len__(train_dataset).value
                     THEN "training" ELSE "validation"
            /\ raised' = raised
       ELSE /\ processed' = processed
            /\ pc' = "failed"
            /\ raised' = "FileNotFoundError"
    /\ UNCHANGED <<loopvars, prepvars, loadervars, fnvars, disk, train_dataset, test_dataset>>

\* for X_test, y_test in test_loader: len(test_dataset) and test_dataset[idx]
\* are first asked for here.
ValidationPass ==
    /\ pc = "validation"
    /\ IF __len__(test_dataset).ok
          /\ \A idx \in 0..(__len__(test_dataset).value - 1) :
                __getitem__(test_dataset, idx).ok
       THEN pc' = "validated" /\ raised' = raised
       ELSE pc' = "failed" /\ raised' = "FileNotFoundError"
    /\ UNCHANGED <<loopvars, prepvars, loadervars, fnvars, disk, train_dataset, test_dataset,
                   processed>>

StartupNext ==
    \/ BuildTrainDataset
    \/ BuildTestDataset
    \/ BuildTrainLoader
    \/ BuildTestLoader
    \/ TrainBatch
    \/ ValidationPass

StartupSpec == InitStartup /\ [][StartupNext]_vars

\* ------------------------------------------------------ SI_SDR_Loss.forward
\* The tensors are given reshaped to [B*S, F*T]: a sequence of rows.
\* x - torch.mean(x, dim=-1, keepdim=True)
ZeroMean(row) == [k \in 1..Len(row) |-> RSub(row[k], RMean(row))]

\* torch.sum(a * b, dim=-1)
SumProduct(a, b) == RSum([k \in 1..Len(a) |-> RMul(a[k], b[k])])

\* The divisor of alpha without its eps.
AlphaDivisorNoEps(targets, eps) == SumProduct(targets, targets)

\* torch.sum(targets ** 2, dim=-1, keepdim=True) + self.eps
AlphaDivisor(targets, eps) == RAdd(SumProduct(targets, targets), eps)

\* alpha = (torch.sum(predictions * targets, ...) + self.eps) / (... + self.eps)
Alpha(predictions, targets, eps) ==
    RDiv(RAdd(SumProduct(predictions, targets), eps), AlphaDivisor(targets, eps))

\* The scaled target with alpha left out.
ScaledTargetNoAlpha(alpha, targets) == targets

\* scaled_target = alpha * targets
ScaledTarget(alpha, targets) == [k \in 1..Len(targets) |-> RMul(alpha, targets[k])]

\* predictions - scaled_target
Residual(predictions, scaled_target) ==
    [k \in 1..Len(predictions) |-> RSub(predictions[k], scaled_target[k])]

\* The divisor of si_sdr without its eps.
SiSdrDivisorNoEps(residual, eps) == SumProduct(residual, residual)

\* torch.sum((predictions - scaled_target) ** 2, dim=-1) + self.eps
SiSdrDivisor(residual, eps) == RAdd(SumProduct(residual, residual), eps)

\* One row of SI_SDR_Loss.forward: its two divisors and the argument of log10.
SiSdrRow(prediction_row, target_row, eps) ==
    LET predictions == ZeroMean(prediction_row)
        targets == ZeroMean(target_row)
        alpha == Alpha(predictions, targets, eps)
        scaled_target == ScaledTarget(alpha, targets)
        residual == Residual(predictions, scaled_target)
        si_sdr == RDiv(SumProduct(scaled_target, scaled_target),
                       SiSdrDivisor(residual, eps))
    IN  [alpha_divisor |-> AlphaDivisor(targets, eps),
         si_sdr_divisor |-> SiSdrDivisor(residual, eps),
         log_argument |-> RAdd(si_sdr, eps)]

\* SI_SDR_Loss.forward: -mean(10 * log10(si_sdr + eps)) over the rows, kept as
\* the rows' divisors and log10 arguments.
SI_SDR_Loss(predictions, targets, eps) ==
    [r \in 1..Len(predictions) |-> SiSdrRow(predictions[r], targets[r], eps)]

RECURSIVE RProd(_)
RProd(xs) == IF xs = << >> THEN Rat(1, 1) ELSE RMul(Head(xs), RProd(Tail(xs)))

\* The loss is a finite number: every log10 argument is finite and positive.
LossFinite(lv) ==
    \A r \in 1..Len(lv) :
        IsFinite(lv[r].log_argument) /\ lv[r].log_argument.n > 0

\* The quotient of the products of the log10 arguments of two losses over the
\* same rows: -mean(10 * log10(a)) is the lower the larger the product is, so
\* loss a <= loss b exactly when the quotient a over b is at least 1.
LogArgumentQuotient(a, b) ==
    RProd([r \in 1..Len(a) |-> RDiv(a[r].log_argument, b[r].log_argument)])

\* loss a <= loss b, for finite losses over the same number of rows
LossLeq(a, b) ==
    LET q == LogArgumentQuotient(a, b) IN IsFinite(q) /\ q.n >= q.d

\* loss a = loss b
LossEq(a, b) == LogArgumentQuotient(a, b) = Rat(1, 1)

\* The numbers of values in a row (F*T) tried.
RowLengths == {1, 2, 3}

\* The rows of a given length with values between -amp and amp.
Rows(len, amp) == [1..len -> {Rat(v, 1) : v \in (0 - amp)..amp}]

\* The second rows of the two-row inputs (B*S = 2): prediction and target.
SecondRows ==
    {[p |-> <<Zero, Zero, Zero>>, t |-> <<Zero, Zero, Zero>>],
     [p |-> <<Rat(1, 1), Zero, Zero>>, t |-> <<Rat(1, 1), Rat(0 - 1, 1), Zero>>],
     [p |-> <<Rat(1, 1), Rat(0 - 1, 1), Rat(0 - 1, 1)>>, t |-> <<Rat(1, 1), Zero, Zero>>]}

\* The inputs tried: one row of any length up to amplitude MaxAmp, or two rows
\* of three values, the first up to amplitude 1 and the second of SecondRows.
LossInputs ==
    {[predictions |-> <<P>>, targets |-> <<T>>] :
        P \in UNION {Rows(len, MaxAmp) : len \in RowLengths},
        T \in UNION {Rows(len, MaxAmp) : len \in RowLengths}}
    \cup
    {[predictions |-> <<P, second.p>>, targets |-> <<T, second.t>>] :
        P \in Rows(3, 1), T \in Rows(3, 1), second \in SecondRows}

\* eps: none, and two positive values (1e-8 by default, scaled up to the signals).
EpsValues == {Zero, Rat(1, 2), Rat(1, 1)}

InitLoss ==
    /\ pc = "call"
    /\ \E inp \in LossInputs, eps \in EpsValues :
         /\ Len(inp.predictions[1]) = Len(inp.targets[1])
         /\ call = [predictions |-> inp.predictions, targets |-> inp.targets,
                    eps |-> eps]
    /\ ret = << >>
    /\ LoopIdle
    /\ PrepIdle
    /\ DataIdle
    /\ LoaderIdle

\* loss = criterion(outputs, y_batch)
CallLoss ==
    /\ pc = "call"
    /\ ret' = SI_SDR_Loss(call.predictions, call.targets, call.eps)
    /\ pc' = "returned"
    /\ UNCHANGED <<loopvars, prepvars, datavars, loadervars, call>>

LossNext == CallLoss

LossSpec == InitLoss /\ [][LossNext]_vars

\* ------------------------------------- train_model: the full-precision path
\* The "else" branch of the batch loop (use_amp False): after loss.backward(),
\* "if (batch_idx + 1) % gradient_accumulation_steps == 0: optimizer.step();
\* optimizer.zero_grad()".
FullPrecisionStep ==
    /\ loop = "train_model"
    /\ pc = "step"
    /\ IF StepDue(batch_idx, gradient_accumulation_steps)
       THEN /\ StepEffect(FALSE)
            /\ ZeroGrad(grads)
       ELSE UNCHANGED gradvars
    /\ pc' = "account"
    /\ UNCHANGED <<prepvars, fnvars, datavars, loadervars, cfgvars, epoch, trainvars, evalvars, ckptvars>>

\* The flush after the batch loop with use_amp False: optimizer.step();
\* optimizer.zero_grad(), then the averages and model.eval().
FullPrecisionFlush ==
    /\ loop = "train_model"
    /\ pc = "fetch"
    /\ train_iter = n_train
    /\ IF FlushDue(batch_idx, gradient_accumulation_steps)
       THEN /\ StepEffect(FALSE)
            /\ ZeroGrad(grads)
       ELSE UNCHANGED gradvars
    /\ avg_loss' = Mean(epoch_loss, n_train)
    /\ test_loss' = 0
    /\ test_iter' = 0
    /\ pc' = "eval"
    /\ UNCHANGED <<prepvars, fnvars, datavars, loadervars, cfgvars, epoch, train_iter, batch_idx, loss, epoch_loss,
                   avg_test_loss, validated_epoch, ckptvars>>

\* The steps of train_model with use_amp False.
FullPrecisionNext ==
    \/ EpochStart
    \/ FetchBatch
    \/ Forward
    \/ LossCompute
    \/ Backward
    \/ FullPrecisionStep
    \/ Account
    \/ FullPrecisionFlush
    \/ EvalBatch
    \/ EvalDone
    \/ Checkpoint

\* scaler.step(optimizer); scaler.update(); optimizer.zero_grad() at a point
\* where a step is due, when the scaler finds inf or NaN in the gradients: the
\* call is made and the gradient reset, optimizer.step() is not run and the
\* scale is halved.  Control moves on as after an applied step.
ScalerSkip ==
    /\ loop = "train_model"
    /\ use_amp
    /\ \/ /\ pc = "step"
          /\ StepDue(batch_idx, gradient_accumulation_steps)
          /\ pc' = "account"
          /\ UNCHANGED <<avg_loss, test_loss, test_iter>>
       \/ /\ pc = "fetch"
          /\ train_iter = n_train
          /\ FlushDue(batch_idx, gradient_accumulation_steps)
          /\ pc' = "eval"
          /\ avg_loss' = Mean(epoch_loss, n_train)
          /\ test_loss' = 0
          /\ test_iter' = 0
    /\ step_calls' = [step_calls EXCEPT ![batch_idx + 1] = @ + 1]
    /\ grads' = {}
    /\ scaler_backoffs' = scaler_backoffs + 1
    /\ UNCHANGED <<params, opt_state, applied, epoch, train_iter, batch_idx, loss,
                   epoch_loss, avg_test_loss, validated_epoch, ckptvars>>

\* ------------------------------------ the DataLoader workers and train_model
\* Mutant: a batch that arrives ahead of its turn is dropped.
DropOutOfOrder(info, idx, data) == info

\* "self._task_info[idx] += (data,)": a batch that arrives ahead of its turn is
\* kept until the loop asks for it.
StoreOutOfOrder(info, idx, data) ==
    [t \in DOMAIN info \cup {idx} |-> IF t = idx THEN data ELSE info[t]]

\* num_workers=4 of both loaders, scaled down.
num_workers == 2

\* prefetch_factor, left at the DataLoader default.
prefetch_factor == 2

WorkerIds == 0..(num_workers - 1)

\* The None that ends a worker.
None == [task |-> -1, index |-> << >>]

\* The orders a sampler yields the indices 0..n-1 in: SequentialSampler
\* (shuffle=False) in order, RandomSampler (shuffle=True) in any order, of which
\* these are tried.
SamplerOrders(shuffle, n) ==
    IF shuffle THEN {[k \in 1..n |-> k - 1], [k \in 1..n |-> n - k]}
    ELSE {[k \in 1..n |-> k - 1]}

\* BatchSampler(sampler, batch_size, drop_last=False): the indices in groups of
\* batch_size, the last group shorter when the division leaves a rest.
RECURSIVE BatchSampler(_, _)
BatchSampler(order, size) ==
    IF order = << >> THEN << >>
    ELSE IF Len(order) <= size THEN <<order>>
    ELSE <<SubSeq(order, 1, size)>>
             \o BatchSampler(SubSeq(order, size + 1, Len(order)), size)

\* fetcher.fetch(index): default_collate([dataset[idx] for idx in index]) stacks
\* the items into new tensors.
fetch(dataset, index) ==
    [X_batch |-> [k \in 1..Len(index) |-> __getitem__(dataset, index[k]).X_item],
     y_batch |-> [k \in 1..Len(index) |-> __getitem__(dataset, index[k]).y_item]]

\* _try_put_index, applied to the sending side st of the iterator: the next batch
\* of indices, if the sampler has one, goes to the next worker in turn.
_try_put_index(st) ==
    IF st.sampler_iter = << >> THEN st
    ELSE [sampler_iter |-> Tail(st.sampler_iter),
          index_queues |->
              [st.index_queues EXCEPT ![st.worker_queue_idx] =
                  Append(@, [task |-> st.send_idx, index |-> Head(st.sampler_iter)])],
          send_idx |-> st.send_idx + 1,
          worker_queue_idx |-> (st.worker_queue_idx + 1) % num_workers]

\* "for _ in range(self._prefetch_factor * self._num_workers): self._try_put_index()"
RECURSIVE Prime(_, _)
Prime(st, times) ==
    IF times = 0 THEN st ELSE Prime(_try_put_index(st), times - 1)

\* The sending side of the iterator.
Sending ==
    [sampler_iter |-> sampler_iter, index_queues |-> index_queues,
     send_idx |-> send_idx, worker_queue_idx |-> worker_queue_idx]

SetSending(st) ==
    /\ sampler_iter' = st.sampler_iter
    /\ index_queues' = st.index_queues
    /\ send_idx' = st.send_idx
    /\ worker_queue_idx' = st.worker_queue_idx

\* The dataset of the loader in use.
LoaderDataset == IF loader = "train_loader" THEN train_dataset ELSE test_dataset

\* What no step of the loader specification changes.
LoaderFrame ==
    UNCHANGED <<prepvars, fnvars, disk, processed, raised, cfgvars, train_iter, loss,
                epoch_loss, avg_loss, grads, scaler_backoffs, step_calls, applied,
                discarded, skipped, empty_steps, evalvars, ckptvars, batch_size>>
\* Mutant: deleting the batch frees the dataset rows it was made from.
DelFreesRows(dataset, batch) ==
    [dataset EXCEPT
       !.X_data = SelectSeq(@, LAMBDA row :
                     \A k \in 1..Len(batch.X_batch) : batch.X_batch[k] # row),
       !.y_data = SelectSeq(@, LAMBDA row :
                     \A k \in 1..Len(batch.y_batch) : batch.y_batch[k] # row)]

\* "del X_batch, y_batch, output": the names of the loop are unbound; the batch
\* was stacked into tensors of its own, so the dataset keeps every row.
Del(dataset, batch) == dataset

\* The batch sizes and the sizes of the test files tried; the train files hold
\* 1..MaxLoaderItems entries.
BatchSizes == {1, 2}
TestSizes == {2}

\* len(loader): the number of batches of n items.
LoaderLen(n, size) == (n + size - 1) \div size

\* train_model up to the first epoch: both datasets preloaded from files of
\* equal sizes, as process_dataset appends mixtures and sources in step.
InitLoader ==
    /\ loop = "train_model"
    /\ pc = "iter"
    /\ loader = "train_loader"
    /\ batch_size \in BatchSizes
    /\ \E n \in 1..MaxLoaderItems, m \in TestSizes :
         /\ disk = [p \in {"processed/X_train.npy", "processed/y_train.npy",
                           "processed/X_test.npy", "processed/y_test.npy"} |->
                      CASE p = "processed/X_train.npy" -> NpyArray("mixture", n)
                        [] p = "processed/y_train.npy" -> NpyArray("sources", n)
                        [] p = "processed/X_test.npy" -> NpyArray("mixture", m)
                        [] OTHER -> NpyArray("sources", m)]
         /\ n_train = LoaderLen(n, batch_size)
         /\ n_test = LoaderLen(m, batch_size)
    /\ train_dataset = OptimizedSpectrogramDataset("processed/X_train.npy",
                                                   "processed/y_train.npy", TRUE).self
    /\ test_dataset = OptimizedSpectrogramDataset("processed/X_test.npy",
                                                  "processed/y_test.npy", TRUE).self
    /\ processed = 0
    /\ raised = "none"
    /\ num_epochs = MaxEpochs
    /\ gradient_accumulation_steps = 2
    /\ use_amp = FALSE
    /\ val_feed = << >>
    /\ epoch = 0
    /\ train_iter = 0
    /\ batch_idx = -1
    /\ loss = [value |-> 0, div |-> 1]
    /\ epoch_loss = 0
    /\ avg_loss = 0
    /\ grads = {}
    /\ params = 0
    /\ opt_state = 0
    /\ scaler_backoffs = 0
    /\ test_iter = 0
    /\ test_loss = 0
    /\ avg_test_loss = 0
    /\ best_loss = PosInf
    /\ fs = << >>
    /\ step_calls = ZeroCount
    /\ applied = ZeroCount
    /\ discarded = {}
    /\ skipped = {}
    /\ empty_steps = 0
    /\ validated_epoch = -1
    /\ val_seen = {}
    /\ n_decisions = 0
    /\ n_saves = 0
    /\ sampler_iter = << >>
    /\ index_queues = [w \in WorkerIds |-> << >>]
    /\ workers = [w \in WorkerIds |-> [pc |-> "exited", held |-> << >>]]
    /\ worker_result_queue = << >>
    /\ data_queue = << >>
    /\ task_info = << >>
    /\ send_idx = 0
    /\ rcvd_idx = 0
    /\ worker_queue_idx = 0
    /\ X_batch = << >>
    /\ delivered = << >>
    /\ PrepIdle
    /\ FnIdle

\* iter(train_loader) / iter(test_loader): the sampler fixes its order, the
\* workers start and the first prefetch_factor * num_workers batches of indices
\* are handed out.
CreateIterator ==
    /\ pc = "iter"
    /\ \E order \in SamplerOrders(loader = "train_loader", __len__(LoaderDataset).value) :
         SetSending(Prime([sampler_iter |-> BatchSampler(order, batch_size),
                           index_queues |-> [w \in WorkerIds |-> << >>],
                           send_idx |-> 0,
                           worker_queue_idx |-> 0],
                          prefetch_factor * num_workers))
    /\ workers' = [w \in WorkerIds |-> [pc |-> "get", held |-> << >>]]
    /\ worker_result_queue' = << >>
    /\ data_queue' = << >>
    /\ task_info' = << >>
    /\ rcvd_idx' = 0
    /\ delivered' = << >>
    /\ batch_idx' = -1
    /\ pc' = "next"
    /\ LoaderFrame
    /\ UNCHANGED <<train_dataset, test_dataset, params, opt_state, epoch, loader, X_batch>>

\* _worker_loop: r = index_queue.get(); None ends the worker, otherwise
\* data = fetcher.fetch(index)
WorkerGet(w) ==
    /\ workers[w].pc = "get"
    /\ index_queues[w] # << >>
    /\ LET r == Head(index_queues[w])
       IN  IF r = None
           THEN workers' = [workers EXCEPT ![w] = [pc |-> "exited", held |-> << >>]]
           ELSE workers' = [workers EXCEPT ![w] =
                              [pc |-> "put",
                               held |-> [task |-> r.task,
                                         data |-> fetch(LoaderDataset, r.index)]]]
    /\ index_queues' = [index_queues EXCEPT ![w] = Tail(@)]
    /\ LoaderFrame
    /\ UNCHANGED <<train_dataset, test_dataset, params, opt_state, epoch, batch_idx, pc,
                   sampler_iter, worker_result_queue, data_queue, task_info, send_idx,
                   rcvd_idx, worker_queue_idx, X_batch, loader, delivered>>

\* _worker_loop: data_queue.put((idx, data))
WorkerPut(w) ==
    /\ workers[w].pc = "put"
    /\ worker_result_queue' = Append(worker_result_queue, workers[w].held)
    /\ workers' = [workers EXCEPT ![w] = [pc |-> "get", held |-> << >>]]
    /\ LoaderFrame
    /\ UNCHANGED <<train_dataset, test_dataset, params, opt_state, epoch, batch_idx, pc,
                   sampler_iter, index_queues, data_queue, task_info, send_idx,
                   rcvd_idx, worker_queue_idx, X_batch, loader, delivered>>

\* pin_memory=True: the pin-memory thread moves each result of the workers, in
\* pinned memory, to the queue __next__ reads.
PinMemoryThread ==
    /\ worker_result_queue # << >>
    /\ data_queue' = Append(data_queue, Head(worker_result_queue))
    /\ worker_result_queue' = Tail(worker_result_queue)
    /\ LoaderFrame
    /\ UNCHANGED <<train_dataset, test_dataset, params, opt_state, epoch, batch_idx, pc,
                   sampler_iter, index_queues, workers, task_info, send_idx,
                   rcvd_idx, worker_queue_idx, X_batch, loader, delivered>>

\* _process_data: the batch is returned to the loop and one more batch of
\* indices is handed out; enumerate counts it.
ProcessData(data) ==
    /\ rcvd_idx' = rcvd_idx + 1
    /\ SetSending(_try_put_index(Sending))
    /\ X_batch' = data
    /\ delivered' = Append(delivered, data)
    /\ batch_idx' = batch_idx + 1
    /\ pc' = "body"

\* __next__ when the batch whose turn it is has already arrived.
NextCached ==
    /\ pc = "next"
    /\ rcvd_idx < send_idx
    /\ rcvd_idx \in DOMAIN task_info
    /\ ProcessData(task_info[rcvd_idx])
    /\ task_info' = [t \in DOMAIN task_info \ {rcvd_idx} |-> task_info[t]]
    /\ LoaderFrame
    /\ UNCHANGED <<train_dataset, test_dataset, params, opt_state, epoch, workers,
                   worker_result_queue, data_queue, loader>>

\* __next__ otherwise: idx, data = self._get_data() waits for a result; the one
\* whose turn it is is returned, any other is put aside.
NextGetData ==
    /\ pc = "next"
    /\ rcvd_idx < send_idx
    /\ rcvd_idx \notin DOMAIN task_info
    /\ data_queue # << >>
    /\ data_queue' = Tail(data_queue)
    /\ LET r == Head(data_queue)
       IN  IF r.task = rcvd_idx
           THEN /\ ProcessData(r.data)
                /\ UNCHANGED task_info
           ELSE /\ task_info' = StoreOutOfOrder(task_info, r.task, r.data)
                /\ UNCHANGED <<pc, rcvd_idx, sampler_iter, index_queues, send_idx,
                               worker_queue_idx, X_batch, delivered, batch_idx>>
    /\ LoaderFrame
    /\ UNCHANGED <<train_dataset, test_dataset, params, opt_state, epoch, workers,
                   worker_result_queue, loader>>

\* __next__ when every batch sent has been returned: _shutdown_workers puts None
\* on every index queue, then StopIteration ends the for loop.
StopIteration ==
    /\ pc = "next"
    /\ rcvd_idx = send_idx
    /\ index_queues' = [w \in WorkerIds |-> Append(index_queues[w], None)]
    /\ pc' = "join"
    /\ LoaderFrame
    /\ UNCHANGED <<train_dataset, test_dataset, params, opt_state, epoch, batch_idx,
                   sampler_iter, workers, worker_result_queue, data_queue, task_info,
                   send_idx, rcvd_idx, worker_queue_idx, X_batch, loader, delivered>>

\* _shutdown_workers: w.join() for every worker.
JoinWorkers ==
    /\ pc = "join"
    /\ \A w \in WorkerIds : workers[w].pc = "exited"
    /\ pc' = "exhausted"
    /\ LoaderFrame
    /\ UNCHANGED <<train_dataset, test_dataset, params, opt_state, epoch, batch_idx,
                   sampler_iter, index_queues, workers, worker_result_queue, data_queue,
                   task_info, send_idx, rcvd_idx, worker_queue_idx, X_batch, loader,
                   delivered>>

\* The body of the batch loop: transfer to the device, forward, loss, backward,
\* the optimizer step when one is due, del X_batch, y_batch, output.
TrainBody ==
    /\ pc = "body"
    /\ loader = "train_loader"
    /\ IF StepDue(batch_idx, gradient_accumulation_steps)
       THEN params' = params + 1 /\ opt_state' = opt_state + 1
       ELSE UNCHANGED <<params, opt_state>>
    /\ train_dataset' = Del(train_dataset, X_batch)
    /\ X_batch' = << >>
    /\ pc' = "next"
    /\ LoaderFrame
    /\ UNCHANGED <<test_dataset, epoch, batch_idx, sampler_iter,
                   index_queues, workers, worker_result_queue, data_queue, task_info,
                   send_idx, rcvd_idx, worker_queue_idx, loader, delivered>>

\* The body of the validation loop under torch.no_grad(): transfer, forward,
\* loss, del X_test, y_test, output.
ValidationBody ==
    /\ pc = "body"
    /\ loader = "test_loader"
    /\ test_dataset' = Del(test_dataset, X_batch)
    /\ X_batch' = << >>
    /\ pc' = "next"
    /\ LoaderFrame
    /\ UNCHANGED <<train_dataset, params, opt_state, epoch, batch_idx,
                   sampler_iter, index_queues, workers, worker_result_queue, data_queue,
                   task_info, send_idx, rcvd_idx, worker_queue_idx, loader, delivered>>

\* After the batch loop: the flush step when one is due, the averages,
\* model.eval(), and the validation loop starts.
EndTrainPass ==
    /\ pc = "exhausted"
    /\ loader = "train_loader"
    /\ IF FlushDue(batch_idx, gradient_accumulation_steps)
       THEN params' = params + 1 /\ opt_state' = opt_state + 1
       ELSE UNCHANGED <<params, opt_state>>
    /\ loader' = "test_loader"
    /\ pc' = "iter"
    /\ LoaderFrame
    /\ UNCHANGED <<train_dataset, test_dataset, epoch, batch_idx, sampler_iter,
                   index_queues, workers, worker_result_queue, data_queue, task_info,
                   send_idx, rcvd_idx, worker_queue_idx, X_batch, delivered>>

\* After the validation loop: the checkpoint decision, then the next epoch or
\* the end of the run.
EndValidationPass ==
    /\ pc = "exhausted"
    /\ loader = "test_loader"
    /\ loader' = "train_loader"
    /\ IF epoch + 1 < num_epochs
       THEN epoch' = epoch + 1 /\ pc' = "iter"
       ELSE epoch' = epoch /\ pc' = "done"
    /\ LoaderFrame
    /\ UNCHANGED <<train_dataset, test_dataset, params, opt_state, batch_idx,
                   sampler_iter, index_queues, workers, worker_result_queue, data_queue,
                   task_info, send_idx, rcvd_idx, worker_queue_idx, X_batch, delivered>>

\* The steps of the training loop (the single main thread).
MainLoop ==
    \/ CreateIterator
    \/ NextCached
    \/ NextGetData
    \/ StopIteration
    \/ JoinWorkers
    \/ TrainBody
    \/ ValidationBody
    \/ EndTrainPass
    \/ EndValidationPass

LoaderNext ==
    \/ MainLoop
    \/ \E w \in WorkerIds : WorkerGet(w)
    \/ \E w \in WorkerIds : WorkerPut(w)
    \/ PinMemoryThread

\* The operating system runs every process and thread that can take a step.
LoaderFairness ==
    /\ WF_vars(MainLoop)
    /\ \A w \in WorkerIds : WF_vars(WorkerGet(w)) /\ WF_vars(WorkerPut(w))
    /\ WF_vars(PinMemoryThread)

LoaderSpec == InitLoader /\ [][LoaderNext]_vars /\ LoaderFairness

\* --------------------------- SpectrogramSeparator.forward: what flows where
\* From the encoder memory on, a tensor is known by its shape and its elements
\* in row-major order (counted from 0).  An element records the source queries
\* and the batch items' memories it was computed from, and a value.
RECURSIVE SumInts(_)
SumInts(xs) == IF xs = << >> THEN 0 ELSE Head(xs) + SumInts(Tail(xs))

Stride(shape, k) == Prod(SubSeq(shape, k + 1, Len(shape)))

\* The coordinates (from 0) of flat position i, and back.
Unravel(i, shape) == [k \in 1..Len(shape) |-> (i \div Stride(shape, k)) % shape[k]]

Ravel(idx, shape) == SumInts([k \in 1..Len(shape) |-> idx[k] * Stride(shape, k)])

RaisedData == [ok |-> FALSE, shape |-> << >>, data |-> << >>]

DataTensor(shape, Elem(_)) ==
    [ok |-> TRUE, shape |-> shape,
     data |-> [i \in 0..(Prod(shape) - 1) |-> Elem(Unravel(i, shape))]]

ShapeOf(t) == [ok |-> t.ok, shape |-> t.shape]

\* Tensor.permute(*order): element idx of the result is the element of t whose
\* coordinate order[k] is idx[k].
PermuteData(t, order) ==
    LET s == Permute(ShapeOf(t), order)
        Elem(idx) ==
            t.data[Ravel([m \in 1..Len(order) |->
                            idx[CHOOSE k \in 1..Len(order) : order[k] = m]], t.shape)]
    IN  IF ~s.ok THEN RaisedData ELSE DataTensor(s.shape, Elem)

\* Tensor.reshape(*target): the elements keep their row-major order.
ReshapeData(t, target) ==
    LET s == Reshape(ShapeOf(t), target)
    IN  IF ~s.ok THEN RaisedData ELSE [ok |-> TRUE, shape |-> s.shape, data |-> t.data]

\* self.source_queries.expand(B, -1, -1, -1): every batch item gets all queries.
ExpandBatchData(t, B) ==
    LET s == ExpandBatch(ShapeOf(t), B)
        Elem(idx) == t.data[Ravel(Tail(idx), t.shape)]
    IN  IF ~s.ok THEN RaisedData ELSE DataTensor(s.shape, Elem)

\* memory.unsqueeze(1).expand(-1, S, -1, -1): every source gets the item's memory.
ExpandSourcesData(t, S) ==
    LET s == ExpandSources(ShapeOf(t), S)
        Elem(idx) == t.data[Ravel(<<idx[1]>> \o SubSeq(idx, 3, Len(idx)), t.shape)]
    IN  IF ~s.ok THEN RaisedData ELSE DataTensor(s.shape, Elem)

\* The elements of row r (first coordinate) of a tensor.
RowElements(t, r) ==
    {t.data[i] : i \in {j \in DOMAIN t.data : Unravel(j, t.shape)[1] = r}}

\* self.transformer_decoder(queries, memory), batch_first: attention mixes the
\* time steps and features of a row, and row r of the result comes from row r of
\* the queries and row r of the memory.  Its value is an input; NaN spreads.
transformer_decoder_data(tgt, memory, d_model) ==
    LET s == transformer_decoder(ShapeOf(tgt), ShapeOf(memory), d_model)
        Elem(idx) ==
            LET from == RowElements(tgt, idx[1]) \cup RowElements(memory, idx[1])
            IN  [queries |-> UNION {e.queries : e \in from},
                 memory |-> UNION {e.memory : e \in from},
                 value |-> IF \E e \in from : e.value = NaN THEN NaN ELSE Rat(1, 1)]
    IN  IF ~s.ok THEN RaisedData ELSE DataTensor(s.shape, Elem)

\* The values the last nn.Linear is taken to return.
Patterns == {"negative", "positive", "mixed"}

PatternValue(pattern, idx) ==
    CASE pattern = "negative" -> Rat(0 - 1, 1)
      [] pattern = "positive" -> Rat(1, 1)
      [] OTHER -> Rat((SumInts(idx) % 3) - 1, 1)

\* nn.Linear(d_model, n_mels) of output_proj: every output feature of a position
\* comes from all input features of that position; NaN spreads.
LinearData(t, in_features, out_features, pattern) ==
    LET s == Linear(ShapeOf(t), in_features, out_features)
        Elem(idx) ==
            LET from == {t.data[Ravel(SubSeq(idx, 1, Len(idx) - 1) \o <<k>>, t.shape)] :
                            k \in 0..(in_features - 1)}
            IN  [queries |-> UNION {e.queries : e \in from},
                 memory |-> UNION {e.memory : e \in from},
                 value |-> IF \E e \in from : e.value = NaN THEN NaN
                           ELSE PatternValue(pattern, idx)]
    IN  IF ~s.ok THEN RaisedData ELSE DataTensor(s.shape, Elem)

\* nn.ReLU(): max(0, v) element by element; the NaN of a NaN.
ReLU(t) ==
    IF ~t.ok THEN RaisedData
    ELSE [t EXCEPT !.data =
            [i \in DOMAIN t.data |->
               [t.data[i] EXCEPT !.value =
                  IF @ = NaN THEN NaN ELSE IF RLess(@, Zero) THEN Zero ELSE @]]]

\* self.source_queries: element (s, l, k) belongs to source s.
source_queries_of(self) ==
    DataTensor(<<self.n_sources, self.seq_len, self.d_model>>,
               LAMBDA idx : [queries |-> {idx[1]}, memory |-> {}, value |-> Rat(1, 1)])

\* The encoder memory of a batch: element (b, t, k) belongs to batch item b, and
\* holds NaN when the item's spectrogram does.
memory_of(self, B, T, nan_items) ==
    DataTensor(<<B, T, self.d_model>>,
               LAMBDA idx : [queries |-> {}, memory |-> {idx[1]},
                             value |-> IF idx[1] \in nan_items THEN NaN
                                                               ELSE Rat(1, 1)])

\* SpectrogramSeparator.forward from "Prepare source queries" on.
forward_from_memory(self, memory, pattern) ==
    LET B == memory.shape[1]
        T == memory.shape[2]
        S == self.n_sources
        queries == ReshapeData(ExpandBatchData(source_queries_of(self), B),
                               <<B * S, T, -1>>)
        memory2 == ReshapeData(ExpandSourcesData(memory, S), <<B * S, T, -1>>)
        output == ReLU(LinearData(transformer_decoder_data(queries, memory2,
                                                           self.d_model),
                                  self.d_model, self.n_mels, pattern))
    IN  [queries |-> queries,
         memory |-> memory2,
         output |-> PermuteData(ReshapeData(output, <<B, S, T, self.n_mels>>),
                                <<1, 2, 4, 3>>)]

\* The small models, the batch sizes, the time lengths up to seq_len, the batch
\* items whose spectrogram holds NaN (a silent track's) and the value patterns.
InitFlow ==
    /\ pc = "call"
    /\ \E m \in 1..MaxMels, l \in 1..MaxSeqLen, d \in 1..MaxDModel, B \in 1..MaxBatch :
         \E T \in 1..l, nan_items \in SUBSET (0..(B - 1)), pattern \in Patterns :
            call = [self |-> [n_mels |-> m, seq_len |-> l, n_sources |-> 4,
                              d_model |-> d, nhead |-> 1],
                    B |-> B, T |-> T, nan_items |-> nan_items, pattern |-> pattern]
    /\ ret = << >>
    /\ LoopIdle
    /\ PrepIdle
    /\ DataIdle
    /\ LoaderIdle

\* output = model(X_batch), from the encoder memory on.
CallForwardFromMemory ==
    /\ pc = "call"
    /\ ret' = forward_from_memory(call.self,
                                  memory_of(call.self, call.B, call.T, call.nan_items),
                                  call.pattern)
    /\ pc' = "returned"
    /\ UNCHANGED <<loopvars, prepvars, datavars, loadervars, call>>

FlowNext == CallForwardFromMemory

FlowSpec == InitFlow /\ [][FlowNext]_vars

\* ------------------------------------------------------------------ claims
\* The training phase of the current epoch is over.
TrainingOver == pc \in {"eval", "checkpoint", "done"}

\* C1: once an epoch's checkpoint decision is taken, best_loss and the loss in the
\* checkpoint file both equal the least mean validation loss of the epochs run
\* so far; the run fed the losses 12.6, 11.2, 10.9, 10.9, 10.8, 13.4, 10.1, 10.0
\* ends with a checkpoint that records 10.0.
C1_BestIsMinimum ==
    /\ val_seen # {} =>
         /\ best_loss = Min(val_seen)
         /\ CheckpointPath \in DOMAIN fs
         /\ fs[CheckpointPath].loss = Min(val_seen)
    /\ (pc = "done" /\ val_feed = RoundedLosses) => fs[CheckpointPath].loss = 100

\* The run of the eight listed losses has ended, one of its epochs regressed and
\* the checkpoint records 10.0.
C1_Witness ==
    /\ pc = "done"
    /\ val_feed = RoundedLosses
    /\ n_decisions = 8
    /\ 134 \in val_seen
    /\ fs[CheckpointPath].loss = 100

\* C2: a checkpoint decision whose mean validation loss is not strictly below
\* best_loss writes nothing, leaves best_loss and the checkpoint file as they
\* were, and the loop goes on to the next epoch (or ends after the last one).
C2_NoWriteUnlessLower ==
    [][(pc = "checkpoint" /\ ~(avg_test_loss < best_loss)) =>
         /\ best_loss' = best_loss
         /\ fs' = fs
         /\ n_saves' = n_saves
         /\ IF epoch + 1 < num_epochs
            THEN pc' = "epoch_start" /\ epoch' = epoch + 1
            ELSE pc' = "done"]_vars

\* A tie and a regression have both been decided without a write, and the loop
\* went on to a further epoch.
C2_Witness ==
    /\ val_feed = RoundedLosses
    /\ pc = "epoch_start"
    /\ epoch = 6
    /\ n_decisions = 6
    /\ n_saves = 4

\* Batch k of the epoch is one after which a step is due.
StepExpected(k) == k % gradient_accumulation_steps = 0 \/ k = n_train

\* C3: in an epoch of n_train batches exactly one optimizer step call follows
\* batch k when k is a multiple of the accumulation count or k = n_train, none
\* follows any other batch, and the action that steps also resets the gradient.
C3_StepSchedule ==
    /\ [](/\ \A k \in 1..n_train : step_calls[k] <= 1
          /\ \A k \in 1..n_train : step_calls[k] = 1 => StepExpected(k)
          /\ TrainingOver =>
               \A k \in 1..n_train : StepExpected(k) => step_calls[k] = 1)
    /\ [][(\E k \in 1..n_train : step_calls'[k] > step_calls[k]) => grads' = {}]_vars

\* Three batches with accumulation count 2: a step after batch 2 and the flush
\* after batch 3, none after batch 1.
C3_Witness ==
    /\ pc = "eval"
    /\ n_train = 3
    /\ gradient_accumulation_steps = 2
    /\ step_calls[1] = 0
    /\ step_calls[2] = 1
    /\ step_calls[3] = 1

\* C4 as stated: for both use_amp settings every batch gradient of the epoch is
\* applied by exactly one optimizer step, no reset discards an unstepped
\* gradient, nothing is pending once training is over, no step is empty.
C4_EveryGradientApplied ==
    /\ discarded = {}
    /\ empty_steps = 0
    /\ TrainingOver =>
         /\ grads = {}
         /\ \A k \in 1..n_train : applied[k] = 1

\* C4 amended: every batch gradient of the epoch is handed to exactly one step
\* call of that epoch; without mixed precision that step applies it; with mixed
\* precision the step applies it unless the loss scaler found non-finite
\* gradients and skipped the update.  No reset discards a gradient that no step
\* received, nothing is pending once training is over, no step is empty.
C4_EveryGradientStepped ==
    /\ discarded = {}
    /\ empty_steps = 0
    /\ ~use_amp => skipped = {}
    /\ \A k \in 1..n_train : applied[k] <= 1 /\ ~(applied[k] = 1 /\ k \in skipped)
    /\ TrainingOver =>
         /\ grads = {}
         /\ \A k \in 1..n_train : applied[k] = 1 \/ k \in skipped

\* A mixed-precision epoch whose first step was skipped by the scaler and whose
\* flush applied the remaining batch.
C4_Witness ==
    /\ pc = "eval"
    /\ use_amp
    /\ n_train = 3
    /\ gradient_accumulation_steps = 2
    /\ skipped = {1, 2}
    /\ applied[3] = 1

\* C5: in every training loop the checkpoint decision of an epoch follows a
\* completed validation pass of that epoch, and the value that becomes
\* best_loss is a mean validation loss.
C5_ValidationDecides ==
    /\ pc = "checkpoint" => validated_epoch = epoch
    /\ n_decisions > 0 => best_loss \in val_seen

\* C6: every checkpoint written holds the model parameters, the optimizer
\* state, the epoch index and the loss, at the one fixed path, so at most one
\* checkpoint file exists.
C6_CheckpointContent ==
    /\ DOMAIN fs \subseteq {CheckpointPath}
    /\ \A p \in DOMAIN fs :
         DOMAIN fs[p] = {"epoch", "model_state_dict", "optimizer_state_dict", "loss"}

\* C7: train_model goes fetch, forward, loss, backward, step for each batch;
\* evaluation starts only when the last batch is done and nothing is left to
\* flush; each epoch takes exactly one checkpoint decision, after its
\* evaluation; the run ends after exactly num_epochs epochs.
C7_StateOrder ==
    /\ [](/\ pc # "done" => n_decisions = epoch
          /\ pc = "done" => n_decisions = num_epochs /\ epoch + 1 = num_epochs
          /\ pc = "checkpoint" => validated_epoch = epoch /\ test_iter = n_test)
    /\ [][/\ pc = "epoch_start" => pc' = "fetch"
          /\ pc = "fetch" => pc' \in {"forward", "eval"}
          /\ pc = "forward" => pc' = "loss"
          /\ pc = "loss" => pc' = "backward"
          /\ pc = "backward" => pc' = "step"
          /\ pc = "step" => pc' = "account"
          /\ pc = "account" => pc' = "fetch"
          /\ pc' = "eval" /\ pc # "eval" => train_iter = n_train /\ grads' = {}
          /\ pc = "eval" => pc' \in {"eval", "checkpoint"}
          /\ pc = "checkpoint" => pc' \in {"epoch_start", "done"}
          /\ n_decisions' # n_decisions =>
               pc = "checkpoint" /\ n_decisions' = n_decisions + 1]_vars

\* A run of two epochs has ended.
C7_Witness ==
    /\ pc = "done"
    /\ num_epochs = 2
    /\ n_decisions = 2
    /\ validated_epoch = 1

\* C8: for a waveform of length L >= 0 and a segment size
\* S = int(sample_rate * segment_duration) >= 1, extract_segments returns
\* exactly ceil(L/S) segments, each of length S; segment i holds the samples
\* waveform[i*S : min((i+1)*S, L)] in order and then only zeros, so the
\* segments are contiguous, do not overlap, and only the last one is padded.
C8_SegmentsPartition ==
    pc = "returned" =>
        LET w == call.waveform.data
            L == Len(w)
            S == ToInt(RDiv(Rat(call.sample_rate * call.segment_duration.n, 1),
                            Rat(call.segment_duration.d, 1)))
            count == Len(ret)
        IN  /\ count * S >= L
            /\ (count - 1) * S < L
            /\ \A i \in 1..count :
                 /\ Len(ret[i]) = S
                 /\ \A j \in 1..S :
                      ret[i][j] = IF (i - 1) * S + j <= L THEN w[(i - 1) * S + j]
                                                          ELSE Zero
                 /\ i < count => i * S <= L

\* Four samples cut into segments of three: one full segment, and one holding
\* the last sample and two zeros.
C8_Witness ==
    /\ pc = "returned"
    /\ call.waveform.data = <<Rat(1, 1), Rat(0 - 1, 1), Rat(1, 1), Rat(1, 1)>>
    /\ call.sample_rate = 1
    /\ call.segment_duration = Rat(3, 1)
    /\ ret = <<(<<Rat(1, 1), Rat(0 - 1, 1), Rat(1, 1)>>), (<<Rat(1, 1), Zero, Zero>>)>>

\* C9: in process_dataset, a track one of whose sources has another number of
\* segments than the mixture makes the run fail with a validation error before
\* any segment of the track is indexed: the segment loop is never entered with
\* the counts differing, and no access to a source's segments is out of range.
C9_MismatchFailsFast ==
    /\ error # "IndexError"
    /\ pc \in {"spec_mix", "spec_src"} =>
         \A name \in DOMAIN sources_audio :
             Len(sources_audio[name]) = Len(mix_segments)

NonFiniteSegments(segs) == \E i \in 1..Len(segs) : HasNonFinite(segs[i])

\* C10: normalize_audio of a silent mixture or source in process_dataset never
\* divides by the zero peak: no NaN or infinite sample reaches the segments, the
\* spectrograms or the dataset X, y.
C10_SilentNeverNonFinite ==
    /\ ~NonFiniteSegments(mix_segments)
    /\ \A name \in DOMAIN sources_audio : ~NonFiniteSegments(sources_audio[name])
    /\ \A k \in 1..Len(all_mix_specs) : ~all_mix_specs[k].nonfinite
    /\ \A k \in 1..Len(X) : ~X[k][1].nonfinite
    /\ \A k \in 1..Len(y) : \A j \in 1..Len(y[k]) : ~y[k][j].nonfinite

\* C11: for an input of shape (B, F, T) with F = n_mels and T not above the
\* model's seq_len, SpectrogramSeparator.forward returns a tensor of shape
\* (B, 4, F, T); so does each notebook's default model on (B, 128, 800).
C11_ForwardShape ==
    pc = "returned" =>
        LET s == call.x.shape
        IN  (s[2] = call.self.n_mels /\ s[3] <= call.self.seq_len) =>
                /\ ret.ok
                /\ ret.shape = <<s[1], 4, s[2], s[3]>>

\* C12: every waveform process_dataset hands to stereo_to_mono, the mixture and
\* each of the four sources, comes back one-dimensional with one sample per
\* sample of the stem, each the average of that sample's channels; a waveform
\* that is already single-channel is returned unchanged.
C12_MonoAveragesChannels ==
    mono # << >> =>
        LET stem == IF mono.stem = "mixture" THEN Transpose(track.audio)
                                             ELSE track.targets[mono.stem]
        IN  /\ mono.result.ndim = 1
            /\ Len(mono.result.data) = Len(stem.data)
            /\ \A k \in 1..Len(stem.data) :
                 k <= Len(mono.result.data) => mono.result.data[k] = RMean(stem.data[k])
            /\ stereo_to_mono(mono.result) = mono.result

\* C14: every segment process_dataset extracts, of the mixture and of each
\* source, has exactly SEGMENT_SAMPLES = int(SAMPLE_RATE * SEGMENT_DURATION)
\* samples.
C14_SegmentLength ==
    /\ \A i \in 1..Len(mix_segments) : Len(mix_segments[i]) = SEGMENT_SAMPLES
    /\ \A name \in DOMAIN sources_audio :
         \A i \in 1..Len(sources_audio[name]) :
             Len(sources_audio[name][i]) = SEGMENT_SAMPLES

\* The channel average of a (samples, 2) stem, and the samples of the stem that
\* segment i of process_dataset's segmentation spans.
ChannelAverage(stem) == Arr1([k \in 1..Len(stem.data) |-> RMean(stem.data[k])])

TimeSpan(stem, i) ==
    extract_segments(normalize_audio(ChannelAverage(stem)), SEGMENT_SAMPLES,
                     DefaultSegmentDuration)[i]

\* C13: when process_dataset returns, X and y have the same length and order:
\* y[k] holds four spectrograms, vocals, drums, bass, other, with the frequency
\* and time dimensions of X[k], computed from the same track and the same
\* segment, i.e. the same time span, as the mixture spectrogram X[k] (checked on
\* the entries of the last track, whose stems are still at hand).
C13_ParallelPairs ==
    (pc \in {"returned", "driver_done"} /\ X # << >>) =>
        /\ Len(X) = Len(y)
        /\ \A k \in 1..Len(X) :
             /\ k <= Len(y) => Len(y[k]) = Len(SourceNames)
             /\ k <= Len(y) =>
                  \A j \in 1..Len(y[k]) : y[k][j].shape = X[k][1].shape
        /\ \A i \in 1..Len(mix_segments) :
             LET k == Len(X) - Len(mix_segments) + i
             IN  /\ X[k][1].stft_of = TimeSpan(Transpose(track.audio), i)
                 /\ \A j \in 1..Len(SourceNames) :
                      y[k][j].stft_of = TimeSpan(track.targets[SourceNames[j]], i)

\* C15: the arrays the preprocessing produces have the shapes training
\* consumes, mixtures (N, frequency_bins, time_frames) and sources
\* (N, 4, frequency_bins, time_frames) with the same N, and are there as the
\* four files X_train, y_train, X_test, y_test that train_model loads.
C15_ProducedAsConsumed ==
    pc = "driver_done" =>
        /\ Len(ShapeOfX) = 3
        /\ Len(ShapeOfY) = 4
        /\ ShapeOfY[1] = ShapeOfX[1]
        /\ ShapeOfY[2] = 4
        /\ SubSeq(ShapeOfY, 3, 4) = SubSeq(ShapeOfX, 2, 3)
        /\ InputPaths \subseteq DOMAIN fs

\* C16: for SpectrogramDataset and OptimizedSpectrogramDataset, preloaded or
\* not, len(dataset) is the number of mixtures and the number of source
\* entries, dataset[idx] for idx in range(len(dataset)) is mixture idx with the
\* sources of the same idx, and a mixture file and a source file of different
\* leading sizes are rejected with an error, not accepted.
C16_DatasetPairs ==
    LET mixtures == disk["processed/X_train.npy"]
        sources == disk["processed/y_train.npy"]
    IN  /\ pc = "ready" => Len(mixtures) = Len(sources)
        /\ (pc = "ready" /\ ret # << >> /\ ret.op = "len") =>
               /\ ret.result.ok
               /\ ret.result.value = Len(mixtures)
               /\ ret.result.value = Len(sources)
        /\ (pc = "ready" /\ ret # << >> /\ ret.op = "getitem") =>
               /\ ret.result.ok
               /\ ret.result.X_item = [of |-> "mixture", item |-> ret.idx + 1]
               /\ ret.result.y_item = [of |-> "sources", item |-> ret.idx + 1]

\* C17: if any of the four input files X_train, y_train, X_test, y_test is
\* missing, train_model aborts with an error before the first training batch
\* is processed, with preload_data True and with preload_data False.
C17_MissingFileAborts ==
    (InputPaths \ DOMAIN disk # {}) =>
        /\ processed = 0
        /\ pc \notin {"validation", "validated"}

\* a <= b for finite a, b
RLeq(a, b) == ~RLess(b, a)

\* C18: for predictions and targets of equal shape, an all-zero target, an
\* all-zero prediction and a prediction equal to the target included, every
\* divisor and every log10 argument of SI_SDR_Loss.forward is at least
\* eps > 0, and the loss is finite.
C18_GuardedByEps ==
    (pc = "returned" /\ call.eps.n > 0) =>
        /\ \A r \in 1..Len(ret) :
             /\ IsFinite(ret[r].alpha_divisor)
             /\ RLeq(call.eps, ret[r].alpha_divisor)
             /\ IsFinite(ret[r].si_sdr_divisor)
             /\ RLeq(call.eps, ret[r].si_sdr_divisor)
             /\ IsFinite(ret[r].log_argument)
             /\ RLeq(call.eps, ret[r].log_argument)
        /\ LossFinite(ret)

\* A prediction equal to its target: the residual is zero and the divisor of
\* si_sdr is eps alone.
C18_Witness ==
    /\ pc = "returned"
    /\ call.eps = Rat(1, 2)
    /\ call.targets = <<(<<Rat(1, 1), Zero, Rat(0 - 1, 1)>>)>>
    /\ call.predictions = call.targets
    /\ ret[1].si_sdr_divisor = Rat(1, 2)
    /\ ret[1].log_argument = Rat(9, 2)

\* c * predictions, and the scalars c > 0 tried
Scaled(c, predictions) ==
    [r \in 1..Len(predictions) |->
       [k \in 1..Len(predictions[r]) |-> RMul(c, predictions[r][k])]]

ScaleValues == {Rat(1, 2), Rat(2, 1), Rat(3, 1)}

\* C19: SI_SDR_Loss is invariant to a positive rescaling of the prediction,
\* loss(c*p, t) = loss(p, t) for every p, t and c > 0, with the epsilon terms of
\* the implementation included.
C19_ScaleInvariant ==
    (pc = "returned" /\ call.eps.n > 0) =>
        \A c \in ScaleValues :
            LossEq(SI_SDR_Loss(Scaled(c, call.predictions), call.targets, call.eps),
                   ret)

\* C19 as amended: without the epsilon terms (eps = 0), whenever loss(p, t) is
\* finite, loss(c*p, t) is finite and equal to it for every c > 0.
C19_ScaleInvariantWithoutEps ==
    (pc = "returned" /\ call.eps = Zero /\ LossFinite(ret)) =>
        \A c \in ScaleValues :
            LET rescaled == SI_SDR_Loss(Scaled(c, call.predictions), call.targets,
                                        call.eps)
            IN  LossFinite(rescaled) /\ LossEq(rescaled, ret)

\* eps = 0, and a prediction that is not a multiple of its target: si_sdr = 3.
C19_Witness ==
    /\ pc = "returned"
    /\ call.eps = Zero
    /\ call.predictions = <<(<<Rat(1, 1), Zero, Zero>>)>>
    /\ call.targets = <<(<<Rat(1, 1), Rat(0 - 1, 1), Zero>>)>>
    /\ ret[1].log_argument = Rat(3, 1)

\* The target is not silent: some value of every row is not zero.
NonSilent(targets) ==
    \A r \in 1..Len(targets) : \E k \in 1..Len(targets[r]) : targets[r][k] # Zero

\* Row by row, the zero-mean prediction has no more energy than the zero-mean
\* target.
NoLouder(predictions, targets) ==
    \A r \in 1..Len(predictions) :
        RLeq(SumProduct(ZeroMean(predictions[r]), ZeroMean(predictions[r])),
             SumProduct(ZeroMean(targets[r]), ZeroMean(targets[r])))

\* C20: for a non-silent target t, SI_SDR_Loss(t, t) is finite and the minimum
\* over all predictions: SI_SDR_Loss(t, t) <= SI_SDR_Loss(p, t) for every p.
C20_IdentityIsMinimum ==
    (pc = "returned" /\ call.eps.n > 0 /\ NonSilent(call.targets)) =>
        LET identity == SI_SDR_Loss(call.targets, call.targets, call.eps)
        IN  LossFinite(identity) /\ LossLeq(identity, ret)

\* C20 as amended: SI_SDR_Loss(t, t) is finite and is the minimum over the
\* predictions whose zero-mean energy does not exceed the target's.
C20_IdentityIsMinimumAmongNoLouder ==
    (pc = "returned" /\ call.eps.n > 0 /\ NonSilent(call.targets)
     /\ NoLouder(call.predictions, call.targets)) =>
        LET identity == SI_SDR_Loss(call.targets, call.targets, call.eps)
        IN  LossFinite(identity) /\ LossLeq(identity, ret)

\* The all-zero prediction of a non-silent target: no louder, and a higher
\* loss than the target itself.
C20_Witness ==
    /\ pc = "returned"
    /\ call.eps = Rat(1, 2)
    /\ call.targets = <<(<<Rat(1, 1), Zero, Rat(0 - 1, 1)>>)>>
    /\ call.predictions = <<(<<Zero, Zero, Zero>>)>>
    /\ RLess(ret[1].log_argument,
             SI_SDR_Loss(call.targets, call.targets, call.eps)[1].log_argument)

RECURSIVE ItemsOf(_)
ItemsOf(batches) ==
    IF batches = << >> THEN << >>
    ELSE [k \in 1..Len(Head(batches).X_batch) |-> Head(batches).X_batch[k].item]
             \o ItemsOf(Tail(batches))

\* C22: with the workers and the pin-memory thread feeding the loop through the
\* bounded prefetch window, under every fair interleaving every batch fetch of
\* the loop returns (with a batch or by ending the pass), some process can
\* always take a step until the run is over, no dataset entry is delivered
\* twice in a pass, every delivered batch pairs the mixtures with their own
\* sources, and when a pass ends every entry of its dataset has been delivered.
C22_LoaderDelivers ==
    /\ [](/\ pc # "done" => ENABLED LoaderNext
          /\ send_idx - rcvd_idx <= prefetch_factor * num_workers
          /\ LET items == ItemsOf(delivered)
             IN  /\ \A i, j \in 1..Len(items) : items[i] = items[j] => i = j
                 /\ pc = "exhausted" =>
                      {items[i] : i \in 1..Len(items)}
                          = 1..__len__(LoaderDataset).value
          /\ \A b \in 1..Len(delivered) : \A k \in 1..Len(delivered[b].X_batch) :
               /\ delivered[b].X_batch[k].of = "mixture"
               /\ delivered[b].y_batch[k].of = "sources"
               /\ delivered[b].y_batch[k].item = delivered[b].X_batch[k].item)
    /\ (pc = "next") ~> (pc # "next")

\* Five batches of one entry, more than the prefetch window of four: the first
\* batch has been returned and a fifth handed out, the third arrived ahead of
\* the second and waits for its turn while the loop is back in __next__.
C22_Witness ==
    /\ pc = "next"
    /\ loader = "train_loader"
    /\ batch_size = 1
    /\ Len(train_dataset.X_data) = 5
    /\ Len(delivered) = 1
    /\ send_idx = 5
    /\ rcvd_idx = 1
    /\ DOMAIN task_info = {2}

C24_OutputNonNegative ==
    (pc = "returned" /\ ret.output.ok) =>
        \A i \in DOMAIN ret.output.data :
            /\ ret.output.data[i].value # NaN
            /\ RLeq(Zero, ret.output.data[i].value)

\* C25: row b*S+s of the flattened decoder input holds T time steps of width
\* d_model of source s's queries and of batch item b's memory, and element
\* [b, s, f, t] of the returned (B, S, n_mels, T) tensor is computed from the
\* queries of source s and the memory of batch item b alone.
C25_FlatteningPairs ==
    pc = "returned" =>
        LET B == call.B
            S == call.self.n_sources
        IN  /\ ret.queries.ok
            /\ ret.memory.ok
            /\ ret.queries.shape = <<B * S, call.T, call.self.d_model>>
            /\ ret.memory.shape = <<B * S, call.T, call.self.d_model>>
            /\ \A b \in 0..(B - 1), s \in 0..(S - 1) :
                 /\ \A e \in RowElements(ret.queries, b * S + s) : e.queries = {s}
                 /\ \A e \in RowElements(ret.memory, b * S + s) : e.memory = {b}
            /\ ret.output.ok
            /\ ret.output.shape = <<B, S, call.self.n_mels, call.T>>
            /\ \A i \in DOMAIN ret.output.data :
                 /\ ret.output.data[i].queries = {Unravel(i, ret.output.shape)[2]}
                 /\ ret.output.data[i].memory = {Unravel(i, ret.output.shape)[1]}

\* C26: from the start of an epoch's validation pass to its checkpoint decision
\* no step changes the parameters or the optimizer state, and a checkpoint is
\* written only by the decision that follows the validation pass of the running
\* epoch: it holds that epoch's index, the parameters and optimizer state the
\* validation ran with, and the validation loss they produced.
C26_CheckpointMatchesValidation ==
    /\ [][(pc \in {"eval", "checkpoint"}) => UNCHANGED <<params, opt_state>>]_vars
    /\ [][(n_saves' # n_saves \/ fs' # fs) =>
            /\ pc = "checkpoint"
            /\ validated_epoch = epoch
            /\ n_saves' = n_saves + 1
            /\ fs'[CheckpointPath] =
                  [epoch |-> epoch, model_state_dict |-> params,
                   optimizer_state_dict |-> opt_state, loss |-> avg_test_loss]]_vars

\* A run of two epochs whose second validation loss was the lower one: the
\* checkpoint on disk is the second epoch's, with the parameters after all four
\* steps of the run.
C26_Witness ==
    /\ pc = "done"
    /\ num_epochs = 2
    /\ n_saves = 2
    /\ n_train = 2
    /\ gradient_accumulation_steps = 1
    /\ ~use_amp
    /\ params = 4
    /\ fs[CheckpointPath].epoch = 1
    /\ fs[CheckpointPath].model_state_dict = 4
    /\ fs[CheckpointPath].loss = avg_test_loss

\* C27: every batch gradient enters the accumulated gradient divided by
\* loss.div, and at every optimizer step call the weights 1 / loss.div of the
\* batches accumulated since the previous step sum to 1: the step applies the
\* mean of their gradients, in the full groups and in the final flush.
C27_WeightsSumToOne ==
    [][(\E k \in 1..n_train : step_calls'[k] > step_calls[k]) =>
          Cardinality(grads) = loss.div]_vars

\* C28: the magnitude array compute_spectrogram returns for a segment has
\* n_fft // 2 + 1 rows and (segment_samples - n_fft) // hop_length + 1 frames,
\* segment_samples being the length of the segment it was given.
C28_DocstringShape ==
    \A k \in 1..Len(all_mix_specs) :
        all_mix_specs[k].shape =
            <<N_FFT \div 2 + 1,
              (Len(all_mix_specs[k].stft_of) - N_FFT) \div HOP_LENGTH + 1>>

=============================================================================
